---------------------------- MODULE Spec2Model ----------------------------
(***************************************************************************)
(* A model of the Smart PyInstaller Wrapper (src/build_exe.py): the        *)
(* SmartExeBuilder pipeline (scan, detect, persist, assemble, run) and     *)
(* the part of the BuilderUI front-end that drives it.                     *)
(*                                                                         *)
(* Text is modelled as a sequence of one-character strings, so that        *)
(* str.startswith, str.endswith, the "in" test on strings and              *)
(* str.split('.')[0] are computed on the characters, as the code does.     *)
(* None and the empty string are both the empty sequence: every reader of  *)
(* main_file in the code tests it for truthiness only.                     *)
(***************************************************************************)
EXTENDS Naturals, Sequences, FiniteSets, TLC

VARIABLES
  tree,          \* the user's files under the project root, in os.walk order
  platform,      \* platform.system()
  mt5_installed, \* whether one of the probed MetaTrader 5 paths exists
  gen,           \* auxiliary files the tool has written into the project root
  config_file,   \* content of <root>/pyinstaller_config.json, or NoFile
  mode,          \* "off", or how main() was started: "cli" or "gui"
  builder,       \* the fields of the SmartExeBuilder object, the one build() runs on
  pc,            \* position of build() in its body
  config_loaded, \* build()'s local config_loaded
  cmd,           \* build()'s local cmd, the generated argument list
  wrote,         \* the auxiliary files the last generate_command wrote
  success,       \* build()'s local success
  is_building,   \* BuilderUI.is_building
  scans,         \* number of scan_project calls on the current builder
  ret,           \* what the last call followed returned, with its inputs
  user,          \* the options the user gave for the current build
  ui,            \* the BuilderUI object's fields and what its widgets show
  events         \* number of events the display thread has handled

vars == <<tree, platform, mt5_installed, gen, config_file, mode, builder,
          pc, config_loaded, cmd, wrote, success, is_building, scans, ret, user, ui,
          events>>

----------------------------------------------------------------------------
(* Bounds of the model.                                                    *)

MaxScans == 2

MaxAssets == 12

MaxCalls == 2

MaxOps == 4

MaxEvents == 3

----------------------------------------------------------------------------
(* Text.                                                                   *)

None == <<>>

StartsWith(s, p) == Len(s) >= Len(p) /\ SubSeq(s, 1, Len(p)) = p

EndsWith(s, p) == Len(s) >= Len(p) /\ SubSeq(s, Len(s) - Len(p) + 1, Len(s)) = p

Contains(s, p) == \E i \in 1..(Len(s) + 1) : i + Len(p) - 1 <= Len(s) /\ SubSeq(s, i, i + Len(p) - 1) = p

InSeq(x, s) == \E i \in 1..Len(s) : s[i] = x

NoDuplicates(s) == \A i, j \in 1..Len(s) : s[i] = s[j] => i = j

RECURSIVE SeqToSet(_)
SeqToSet(s) == IF s = <<>> THEN {} ELSE {Head(s)} \cup SeqToSet(Tail(s))

(* os.path.join of the directory segments and the file name *)
RECURSIVE JoinPath(_, _)
JoinPath(dir, name) ==
  IF dir = <<>> THEN name ELSE Head(dir) \o <<"/">> \o JoinPath(Tail(dir), name)

(* module_name.split('.')[0] *)
RECURSIVE TopPackage(_)
TopPackage(m) ==
  IF m = <<>> \/ Head(m) = "." THEN <<>> ELSE <<Head(m)>> \o TopPackage(Tail(m))

----------------------------------------------------------------------------
(* Files.  A file is its directory (segments below the project root), its  *)
(* name and what the code can observe of it: its size, whether             *)
(* open(..., encoding='utf-8').read() succeeds, and, of the text read,     *)
(* whether it contains the __main__ guard, a GUI-toolkit import, a stdin   *)
(* pattern, and the module names the four import patterns match.           *)

PyFile(dir, name, size, readable, guard, gui, stdin, modules) ==
  [dir |-> dir, name |-> name, size |-> size, readable |-> readable,
   guard |-> guard, gui |-> gui, stdin |-> stdin, modules |-> modules]

Asset(dir, name) == PyFile(dir, name, 1, TRUE, FALSE, FALSE, FALSE, {})

RelPath(f) == JoinPath(f.dir, f.name)

m_MetaTrader5 == <<"M","e","t","a","T","r","a","d","e","r","5">>

f_tool == PyFile(<<>>, <<"t","o","o","l",".","p","y">>, 3, TRUE, TRUE, FALSE, TRUE, {m_MetaTrader5, <<"o","s">>})

f_app == PyFile(<<>>, <<"a","p","p",".","p","y">>, 1, TRUE, FALSE, FALSE, FALSE, {<<"n","u","m","p","y",".","r","a","n","d","o","m">>})

f_main == PyFile(<<>>, <<"m","a","i","n",".","p","y">>, 1, TRUE, FALSE, FALSE, TRUE, {<<"s","y","s">>})

f_gui == PyFile(<<>>, <<"g","u","i",".","p","y">>, 2, TRUE, TRUE, TRUE, FALSE, {<<"t","k","i","n","t","e","r">>})

(* gui.py as it was before the user added the GUI to it and took the      *)
(* database out of it                                                     *)
f_gui_old == PyFile(<<>>, <<"g","u","i",".","p","y">>, 1, TRUE, TRUE, FALSE, TRUE, {<<"s","y","s">>, <<"s","q","l","a","l","c","h","e","m","y">>})

f_a == PyFile(<<>>, <<"a",".","p","y">>, 0, TRUE, FALSE, FALSE, FALSE, {})

f_b == PyFile(<<>>, <<"b",".","p","y">>, 0, TRUE, FALSE, FALSE, FALSE, {})

f_bad == PyFile(<<>>, <<"b","a","d",".","p","y">>, 4, FALSE, TRUE, TRUE, FALSE, {<<"t","k","i","n","t","e","r">>})

f_big == PyFile(<<>>, <<"b","i","g",".","p","y">>, 5, TRUE, FALSE, FALSE, FALSE, {<<"o","s">>})

f_mid == PyFile(<<>>, <<"m","i","d",".","p","y">>, 2, TRUE, FALSE, TRUE, FALSE, {})

f_data == Asset(<<>>, <<"d","a","t","a",".","j","s","o","n">>)

f_logo == Asset(<<>>, <<"l","o","g","o",".","p","n","g">>)

f_lib == Asset(<<>>, <<"l","i","b",".","d","l","l">>)

f_notes == Asset(<<>>, <<"n","o","t","e","s",".","m","d">>)

f_environment == Asset(<<>>, <<"e","n","v","i","r","o","n","m","e","n","t",".","j","s","o","n">>)

f_build_exe == PyFile(<<>>, <<"b","u","i","l","d","_","e","x","e",".","p","y">>, 9, TRUE, TRUE, TRUE, TRUE, {<<"t","k","i","n","t","e","r">>, <<"o","s">>})

f_build_out == Asset(<<<<"b","u","i","l","d">>>>, <<"o","u","t",".","t","x","t">>)

f_pkg_main == PyFile(<<<<"p","k","g">>>>, <<"m","a","i","n",".","p","y">>, 1, TRUE, FALSE, FALSE, FALSE, {})

f_src_build_gen == PyFile(<<<<"s","r","c">>, <<"b","u","i","l","d">>>>, <<"g","e","n",".","p","y">>, 1, TRUE, FALSE, FALSE, FALSE, {})

(* The files the tool itself writes into the project root. *)
f_config == Asset(<<>>, <<"p","y","i","n","s","t","a","l","l","e","r","_","c","o","n","f","i","g",".","j","s","o","n">>)

f_stdin_hook == PyFile(<<>>, <<"s","t","d","i","n","_","h","o","o","k",".","p","y">>, 8, TRUE, FALSE, TRUE, TRUE, {<<"s","y","s">>, <<"o","s">>, <<"t","h","r","e","a","d","i","n","g">>, <<"t","k","i","n","t","e","r">>})

f_mt5_hook == PyFile(<<>>, <<"m","t","5","_","h","o","o","k",".","p","y">>, 4, TRUE, FALSE, FALSE, FALSE, {<<"o","s">>, <<"s","y","s">>, <<"i","m","p","o","r","t","l","i","b",".","u","t","i","l">>, m_MetaTrader5})

f_manifest == Asset(<<>>, <<"a","p","p",".","m","a","n","i","f","e","s","t">>)

f_default_icon == Asset(<<>>, <<"d","e","f","a","u","l","t","_","i","c","o","n",".","i","c","o">>)

(* The source files and the other files of the projects explored. *)
Sources ==
  { <<>>,
    <<f_a>>,
    <<f_a, f_b>>,
    <<f_gui>>,
    <<f_tool, f_app>>,
    <<f_app, f_main>>,
    <<f_bad, f_mid, f_big>> }

Assets ==
  <<f_data, f_logo, f_lib, f_notes, f_environment, f_build_exe,
    f_build_out, f_pkg_main, f_src_build_gen>>

Trees == Sources \cup { s \o Assets : s \in { <<>>, <<f_tool, f_app>> } }

(* the project as it was when the tool was run on it before *)
Older(f) == IF f = f_gui THEN f_gui_old ELSE f

NoFile == [present |-> FALSE]

GenFiles(g, cfg) ==
  (IF cfg = NoFile THEN <<>> ELSE <<f_config>>)
  \o (IF "stdin_hook" \in g THEN <<f_stdin_hook>> ELSE <<>>)
  \o (IF "mt5_hook" \in g THEN <<f_mt5_hook>> ELSE <<>>)
  \o (IF "manifest" \in g THEN <<f_manifest>> ELSE <<>>)
  \o (IF "default_icon" \in g THEN <<f_default_icon>> ELSE <<>>)

IsTop(f) == f.dir = <<>>

IsSub(f) == f.dir # <<>>

(* The files under the project root in the order os.walk yields them: the *)
(* root's own files first, then those of its subdirectories.              *)
Files(t, g, cfg) == SelectSeq(t, IsTop) \o GenFiles(g, cfg) \o SelectSeq(t, IsSub)

Exists(p, fs) == \E i \in 1..Len(fs) : RelPath(fs[i]) = p

Lookup(p, fs) == fs[CHOOSE i \in 1..Len(fs) : RelPath(fs[i]) = p]

(* open(path, 'r', encoding='utf-8').read() returns *)
CanRead(p, fs) == Exists(p, fs) /\ Lookup(p, fs).readable

----------------------------------------------------------------------------
(* SmartExeBuilder.__init__                                                *)

excluded_packages ==
  << <<"_","_","p","y","c","a","c","h","e","_","_">>, <<"b","u","i","l","d">>, <<"d","i","s","t">>, <<"v","e","n","v">>, <<"e","n","v">>, <<".","v","e","n","v">>, <<".","e","n","v">>, <<".","g","i","t">>, <<".","g","i","t","h","u","b">> >>

NewBuilder(main_file) ==
  [ main_file |-> main_file,
    detected_files |-> <<>>,
    python_files |-> <<>>,
    resource_files |-> <<>>,
    data_files |-> <<>>,
    binary_files |-> <<>>,
    hidden_imports |-> {},
    console_mode |-> TRUE,
    one_file |-> FALSE,
    icon_file |-> None,
    clean_build |-> TRUE,
    verbose |-> TRUE,
    optimize_level |-> 2,
    app_name |-> None,
    build_dir |-> <<"/","p","r","o","j","/","b","u","i","l","d">>,
    dist_dir |-> <<"/","p","r","o","j","/","d","i","s","t">>,
    mt5_detection |-> TRUE,
    mt5_path |-> None,
    skip_timestamp |-> FALSE,
    alt_temp_dir |-> None,
    include_directories |-> <<>>,
    excluded_directories |-> <<>> ]

----------------------------------------------------------------------------
(* SmartExeBuilder.scan_project                                            *)

source_ext == << <<".","p","y">> >>

resource_ext == << <<".","p","n","g">>, <<".","j","p","g">>, <<".","j","p","e","g">>, <<".","g","i","f">>, <<".","i","c","o">>, <<".","s","v","g">> >>

data_ext == << <<".","j","s","o","n">>, <<".","c","s","v">>, <<".","t","x","t">>, <<".","x","m","l">>, <<".","h","t","m","l">>, <<".","c","s","s">> >>

binary_ext == << <<".","d","l","l">>, <<".","s","o">>, <<".","d","y","l","i","b">> >>

EndsWithAny(name, exts) == \E i \in 1..Len(exts) : EndsWith(name, exts[i])

(* dirs[:] = [d for d in dirs if d not in self.excluded_packages]: os.walk *)
(* does not descend into a directory of an excluded name, at any depth.    *)
Pruned(f) == \E i \in 1..Len(f.dir) : InSeq(f.dir[i], excluded_packages)

(* any(rel_path.startswith(pkg) for pkg in self.excluded_packages) *)
SkippedByPrefix(f) ==
  \E i \in 1..Len(excluded_packages) : StartsWith(RelPath(f), excluded_packages[i])

(* a scan that keeps every file it meets *)
RecordedAlways(f) == TRUE

(* a scan that passes over the files the tool itself writes *)
Recorded_SkipsOwnFiles(f) ==
  /\ ~Pruned(f) /\ ~SkippedByPrefix(f)
  /\ f.name \notin {<<"p","y","i","n","s","t","a","l","l","e","r","_","c","o","n","f","i","g",".","j","s","o","n">>, <<"s","t","d","i","n","_","h","o","o","k",".","p","y">>, <<"m","t","5","_","h","o","o","k",".","p","y">>}

Recorded(f) == ~Pruned(f) /\ ~SkippedByPrefix(f)

IsSource(f) == EndsWithAny(f.name, source_ext)

IsResource(f) == ~IsSource(f) /\ EndsWithAny(f.name, resource_ext)

IsData(f) == ~IsSource(f) /\ ~IsResource(f) /\ EndsWithAny(f.name, data_ext)

IsBinary(f) == ~IsSource(f) /\ ~IsResource(f) /\ ~IsData(f) /\ EndsWithAny(f.name, binary_ext)

Paths(fs) == [i \in 1..Len(fs) |-> RelPath(fs[i])]

scan_project(b, fs) ==
  LET seen == SelectSeq(fs, Recorded)
  IN [b EXCEPT
        !.detected_files = @ \o Paths(seen),
        !.python_files = @ \o Paths(SelectSeq(seen, IsSource)),
        !.resource_files = @ \o Paths(SelectSeq(seen, IsResource)),
        !.data_files = @ \o Paths(SelectSeq(seen, IsData)),
        !.binary_files = @ \o Paths(SelectSeq(seen, IsBinary))]

----------------------------------------------------------------------------
(* SmartExeBuilder.detect_main_file                                        *)

common_names == << <<"m","a","i","n",".","p","y">>, <<"a","p","p",".","p","y">>, <<"r","u","n",".","p","y">>, <<"s","t","a","r","t",".","p","y">>, <<"c","l","i",".","p","y">> >>

HasGuard(p, fs) == CanRead(p, fs) /\ Lookup(p, fs).guard

SizeOf(p, fs) == Lookup(p, fs).size

(* the element a for loop reaches first among those at the positions idx *)
First(s, idx) == s[CHOOSE i \in idx : \A j \in idx : i <= j]

(* The loop of lines 893-900: the first file whose size exceeds every     *)
(* size before it and is not exceeded after it, starting from size 0.     *)
RECURSIVE Largest(_, _, _, _)
Largest(files, fs, largest_file, largest_size) ==
  IF files = <<>> THEN largest_file
  ELSE IF SizeOf(Head(files), fs) > largest_size
       THEN Largest(Tail(files), fs, Head(files), SizeOf(Head(files), fs))
       ELSE Largest(Tail(files), fs, largest_file, largest_size)

(* detect_main_file with the __main__ guard looked for before the          *)
(* conventional names                                                      *)
detect_main_file_GuardFirst(b, fs) ==
  LET named == { i \in 1..Len(common_names) : InSeq(common_names[i], b.python_files) }
      guarded == { i \in 1..Len(b.python_files) : HasGuard(b.python_files[i], fs) }
  IN IF b.main_file # None /\ Exists(b.main_file, fs) THEN b.main_file
     ELSE IF guarded # {} THEN First(b.python_files, guarded)
     ELSE IF named # {} THEN First(common_names, named)
     ELSE IF Len(b.python_files) = 1 THEN b.python_files[1]
     ELSE Largest(b.python_files, fs, None, 0)

detect_main_file(b, fs) ==
  LET named == { i \in 1..Len(common_names) : InSeq(common_names[i], b.python_files) }
      guarded == { i \in 1..Len(b.python_files) : HasGuard(b.python_files[i], fs) }
  IN IF b.main_file # None /\ Exists(b.main_file, fs) THEN b.main_file
     ELSE IF named # {} THEN First(common_names, named)
     ELSE IF guarded # {} THEN First(b.python_files, guarded)
     ELSE IF Len(b.python_files) = 1 THEN b.python_files[1]
     ELSE Largest(b.python_files, fs, None, 0)

----------------------------------------------------------------------------
(* SmartExeBuilder.analyze_imports, detect_dependencies,                   *)
(* detect_mt5_dependencies                                                 *)

analyze_imports(p, fs) ==
  IF CanRead(p, fs) THEN { TopPackage(m) : m \in Lookup(p, fs).modules } ELSE {}

AllImports(b, fs) ==
  UNION { analyze_imports(b.python_files[i], fs) : i \in 1..Len(b.python_files) }

potential_hidden_imports ==
  << [name |-> <<"p","a","n","d","a","s">>,
      hidden |-> {<<"p","a","n","d","a","s",".","_","l","i","b","s",".","t","s","l","i","b","s",".","t","i","m","e","d","e","l","t","a","s">>, <<"p","a","n","d","a","s",".","_","l","i","b","s",".","t","s","l","i","b","s",".","n","a","t","t","y","p","e">>,
                  <<"p","a","n","d","a","s",".","_","l","i","b","s",".","t","s","l","i","b","s",".","n","p","_","d","a","t","e","t","i","m","e">>}],
     [name |-> <<"n","u","m","p","y">>,
      hidden |-> {<<"n","u","m","p","y",".","r","a","n","d","o","m",".","c","o","m","m","o","n">>, <<"n","u","m","p","y",".","r","a","n","d","o","m",".","b","o","u","n","d","e","d","_","i","n","t","e","g","e","r","s">>,
                  <<"n","u","m","p","y",".","r","a","n","d","o","m",".","e","n","t","r","o","p","y">>}],
     [name |-> <<"m","a","t","p","l","o","t","l","i","b">>, hidden |-> {<<"m","a","t","p","l","o","t","l","i","b",".","b","a","c","k","e","n","d","s",".","b","a","c","k","e","n","d","_","t","k","a","g","g">>}],
     [name |-> <<"s","q","l","a","l","c","h","e","m","y">>, hidden |-> {<<"s","q","l","a","l","c","h","e","m","y",".","e","x","t",".","b","a","k","e","d">>}],
     [name |-> <<"t","k","i","n","t","e","r">>, hidden |-> {<<"t","k","i","n","t","e","r",".","c","o","m","m","o","n","d","i","a","l","o","g">>}],
     [name |-> <<"P","y","Q","t","5">>, hidden |-> {<<"P","y","Q","t","5",".","s","i","p">>}],
     [name |-> <<"M","e","t","a","T","r","a","d","e","r","5">>,
      hidden |-> {<<"M","e","t","a","T","r","a","d","e","r","5">>, <<"M","e","t","a","T","r","a","d","e","r","5",".","c","o","m","m","o","n">>, <<"M","e","t","a","T","r","a","d","e","r","5",".","c","o","n","s","t","a","n","t","s">>,
                  <<"M","e","t","a","T","r","a","d","e","r","5",".","u","t","i","l","s">>}] >>

mt5_hidden_imports ==
  { <<"M","e","t","a","T","r","a","d","e","r","5",".","s","y","m","b","o","l","s","_","g","e","t">>, <<"M","e","t","a","T","r","a","d","e","r","5",".","o","r","d","e","r","_","s","e","n","d">>, <<"M","e","t","a","T","r","a","d","e","r","5",".","p","o","s","i","t","i","o","n","s","_","g","e","t">>,
    <<"M","e","t","a","T","r","a","d","e","r","5",".","a","c","c","o","u","n","t","_","i","n","f","o">>, <<"M","e","t","a","T","r","a","d","e","r","5",".","t","e","r","m","i","n","a","l","_","i","n","f","o">>,
    <<"M","e","t","a","T","r","a","d","e","r","5",".","c","o","p","y","_","r","a","t","e","s","_","f","r","o","m">> }

mt5_install_path == <<"M","e","t","a","T","r","a","d","e","r"," ","5">>

(* The probe of lines 983-1010: Windows and macOS have paths to look at,  *)
(* any other platform has none.                                           *)
Mt5Probe(b, plat, installed) ==
  IF plat \in {"Windows", "Darwin"} /\ installed THEN mt5_install_path ELSE b.mt5_path

(* detect_mt5_dependencies adding the vendor submodules only beside an    *)
(* installation it found                                                  *)
detect_mt5_dependencies_WhenFound(b, plat, installed) ==
  IF ~b.mt5_detection THEN b
  ELSE [b EXCEPT !.mt5_path = Mt5Probe(b, plat, installed),
                 !.hidden_imports = IF Mt5Probe(b, plat, installed) # None
                                    THEN @ \cup mt5_hidden_imports ELSE @]

(* detect_mt5_dependencies adding the vendor submodules only when an      *)
(* installation path was already recorded before the call                 *)
detect_mt5_dependencies_PathFirst(b, plat, installed) ==
  IF ~b.mt5_detection THEN b
  ELSE [b EXCEPT !.mt5_path = Mt5Probe(b, plat, installed),
                 !.hidden_imports = IF b.mt5_path # None
                                    THEN @ \cup mt5_hidden_imports ELSE @]

detect_mt5_dependencies(b, plat, installed) ==
  IF ~b.mt5_detection THEN b
  ELSE [b EXCEPT !.mt5_path = Mt5Probe(b, plat, installed),
                 !.hidden_imports = @ \cup mt5_hidden_imports]

detect_dependencies(b, fs, plat, installed) ==
  LET all_imports == AllImports(b, fs)
      known == UNION { potential_hidden_imports[i].hidden :
                         i \in { j \in 1..Len(potential_hidden_imports) :
                                   potential_hidden_imports[j].name \in all_imports } }
      b1 == [b EXCEPT !.hidden_imports = @ \cup known]
  IN IF m_MetaTrader5 \in all_imports \/ \E imp \in all_imports : Contains(imp, m_MetaTrader5)
     THEN detect_mt5_dependencies(b1, plat, installed)
     ELSE b1

----------------------------------------------------------------------------
(* SmartExeBuilder.detect_console_mode, detect_one_file_mode               *)

(* detect_console_mode without the search for GUI-toolkit imports *)
detect_console_mode_StdinOnly(main_file, fs) ==
  IF ~CanRead(main_file, fs) THEN TRUE
  ELSE IF Lookup(main_file, fs).stdin THEN TRUE
  ELSE TRUE

detect_console_mode(main_file, fs) ==
  IF ~CanRead(main_file, fs) THEN TRUE
  ELSE IF Lookup(main_file, fs).gui THEN FALSE
  ELSE IF Lookup(main_file, fs).stdin THEN TRUE
  ELSE TRUE

OneFileThreshold == 10

(* detect_one_file_mode with the threshold itself counted as many *)
detect_one_file_mode_AtThreshold(b) ==
  IF Len(b.data_files) + Len(b.resource_files) >= OneFileThreshold THEN FALSE ELSE TRUE

detect_one_file_mode(b) ==
  IF Len(b.data_files) + Len(b.resource_files) > OneFileThreshold THEN FALSE ELSE TRUE

----------------------------------------------------------------------------
(* SmartExeBuilder.save_config, load_config: the persisted fields.  The    *)
(* hidden-import set is written as list(set) and read back with set().     *)

Persisted ==
  { "main_file", "console_mode", "one_file", "icon_file", "hidden_imports", "clean_build",
    "verbose", "optimize_level", "app_name", "mt5_detection", "mt5_path", "skip_timestamp",
    "alt_temp_dir", "include_directories", "excluded_directories" }

(* What json.dump writes for a field and what json.load gives back: the   *)
(* set of hidden imports goes through list() and set(), and a tuple is    *)
(* written as an array, which is read back as a list.  Python compares a  *)
(* tuple and a list as unequal whatever they hold.                        *)
Entry(type, directory, destination) ==
  [type |-> type, directory |-> directory, destination |-> destination]

RECURSIVE SetToSeq(_)
SetToSeq(s) ==
  IF s = {} THEN <<>> ELSE LET x == CHOOSE y \in s : TRUE IN <<x>> \o SetToSeq(s \ {x})

ToJson(b, k) ==
  IF k = "hidden_imports" THEN SetToSeq(b[k])
  ELSE IF k = "include_directories"
  THEN [i \in 1..Len(b[k]) |-> [b[k][i] EXCEPT !.type = "list"]]
  ELSE b[k]

FromJson(cfg, k) == IF k = "hidden_imports" THEN SeqToSet(cfg[k]) ELSE cfg[k]

(* the fields save_config_to_file writes besides those of save_config *)
FileLists ==
  { "python_files", "data_files", "resource_files", "binary_files", "build_dir", "dist_dir" }

save_config(b) ==
  [ k \in Persisted \cup {"present"} |-> IF k = "present" THEN TRUE ELSE ToJson(b, k) ]

save_config_to_file(b) ==
  [ k \in Persisted \cup FileLists \cup {"present"} |->
      IF k = "present" THEN TRUE ELSE ToJson(b, k) ]

(* load_config leaving the hidden imports of the file aside *)
load_config_FreshImports(b, cfg) ==
  IF cfg = NoFile THEN b
  ELSE [ k \in DOMAIN b |-> IF k = "hidden_imports" THEN b[k]
                            ELSE IF k \in Persisted /\ k \in DOMAIN cfg THEN FromJson(cfg, k)
                            ELSE b[k] ]

(* config.get(k, current value) for every persisted field; hidden_imports *)
(* is set(config.get("hidden_imports", [])).                              *)
load_config(b, cfg) ==
  IF cfg = NoFile THEN b
  ELSE [ k \in DOMAIN b |-> IF k \in Persisted /\ k \in DOMAIN cfg THEN FromJson(cfg, k)
                            ELSE IF k = "hidden_imports" THEN {}
                            ELSE b[k] ]

(* load_config_from_file: the same, and the file lists and output         *)
(* directories when the file holds them; a file that cannot be read       *)
(* raises and changes nothing                                             *)
load_config_from_file(b, cfg) ==
  IF cfg = NoFile THEN b
  ELSE [ k \in DOMAIN b |->
           IF k \in Persisted \cup FileLists /\ k \in DOMAIN cfg THEN FromJson(cfg, k)
           ELSE IF k = "hidden_imports" THEN {}
           ELSE b[k] ]

----------------------------------------------------------------------------
(* SmartExeBuilder.detect_icon                                             *)

upper == << "A","B","C","D","E","F","G","H","I","J","K","L","M","N","O","P","Q","R","<<",">>T","U","V","W","X","Y","Z" >>

lower == << "a","b","c","d","e","f","g","h","i","j","k","l","m","n","o","p","q","r","s","t","u","v","w","x","y","z" >>

LowerChar(c) ==
  IF \E i \in 1..Len(upper) : upper[i] = c
  THEN lower[CHOOSE i \in 1..Len(upper) : upper[i] = c]
  ELSE c

(* str.lower *)
Lower(s) == [i \in 1..Len(s) |-> LowerChar(s[i])]

LastIndexOf(s, c) ==
  IF \E i \in 1..Len(s) : s[i] = c
  THEN CHOOSE i \in 1..Len(s) : s[i] = c /\ \A j \in (i + 1)..Len(s) : s[j] # c
  ELSE 0

(* os.path.splitext of a file name: the extension starts at the last dot, *)
(* unless that dot leads the name.                                        *)
SplitDot(name) == IF LastIndexOf(name, ".") <= 1 THEN Len(name) + 1 ELSE LastIndexOf(name, ".")

Stem(name) == SubSeq(name, 1, SplitDot(name) - 1)

Ext(name) == SubSeq(name, SplitDot(name), Len(name))

(* os.path.basename, os.path.dirname *)
Basename(p) == SubSeq(p, LastIndexOf(p, "/") + 1, Len(p))

Dirname(p) == SubSeq(p, 1, LastIndexOf(p, "/") - 1)

icon_extensions == { <<".","i","c","o">>, <<".","i","c","n","s">> }

icon_names == { <<"i","c","o","n">>, <<"a","p","p","_","i","c","o","n">>, <<"a","p","p","l","i","c","a","t","i","o","n">>, <<"l","o","g","o">>, <<"f","a","v","i","c","o","n">> }

project_dir == <<"/","p","r","o","j">>

AbsPath(p) == project_dir \o <<"/">> \o p

default_icon_path == AbsPath(<<"d","e","f","a","u","l","t","_","i","c","o","n",".","i","c","o">>)

NamedIcon(f) == Ext(Lower(f.name)) \in icon_extensions /\ Stem(Lower(f.name)) \in icon_names

ResourceIcon(p) == Ext(Lower(Basename(p))) \in icon_extensions

(* pil: whether PIL can be imported and the icon saved (Windows branch) *)
detect_icon(b, fs, plat, pil) ==
  LET named == { i \in 1..Len(fs) : NamedIcon(fs[i]) }
      icons == { i \in 1..Len(b.resource_files) : ResourceIcon(b.resource_files[i]) }
  IN IF named # {} THEN RelPath(First(fs, named))
     ELSE IF icons # {} THEN First(b.resource_files, icons)
     ELSE IF plat = "Windows" /\ b.icon_file = None /\ pil THEN default_icon_path
     ELSE None

(* whether that call of detect_icon writes default_icon.ico *)
IconCreated(b, fs, plat, pil) == detect_icon(b, fs, plat, pil) = default_icon_path

----------------------------------------------------------------------------
(* SmartExeBuilder.generate_command                                        *)

digits == << "0", "1", "2", "3", "4", "5", "6", "7", "8", "9" >>

(* str(n) of a one-digit number *)
Str(n) == << digits[n + 1] >>

RECURSIVE Flatten(_)
Flatten(ss) == IF ss = <<>> THEN <<>> ELSE Head(ss) \o Flatten(Tail(ss))

RemoveFirst(s, x) ==
  IF InSeq(x, s)
  THEN LET i == CHOOSE k \in 1..Len(s) : s[k] = x /\ \A j \in 1..(k - 1) : s[j] # x
       IN SubSeq(s, 1, i - 1) \o SubSeq(s, i + 1, Len(s))
  ELSE s

Separator(plat) == IF plat = "Windows" THEN <<";">> ELSE <<":">>

DestDir(p) == IF Dirname(p) = <<>> THEN <<".">> ELSE Dirname(p)

IsAbs(p) == p # <<>> /\ Head(p) = "/"

AbsOf(p) == IF IsAbs(p) THEN p ELSE AbsPath(p)

ExistsAbs(p, fs) == \E i \in 1..Len(fs) : AbsPath(RelPath(fs[i])) = p

stdin_hook_path == AbsPath(<<"s","t","d","i","n","_","h","o","o","k",".","p","y">>)

mt5_hook_path == AbsPath(<<"m","t","5","_","h","o","o","k",".","p","y">>)

manifest_path == AbsPath(<<"a","p","p",".","m","a","n","i","f","e","s","t">>)

ModeArgs(b) == IF b.one_file THEN << <<"-","-","o","n","e","f","i","l","e">> >> ELSE << <<"-","-","o","n","e","d","i","r">> >>

(* the runtime hook named whether or not stdin_hook.py could be written *)
ConsoleArgs_HookAlways(b, w) ==
  IF b.console_mode THEN << <<"-","-","c","o","n","s","o","l","e">> >>
  ELSE << <<"-","-","r","u","n","t","i","m","e","-","h","o","o","k">>, stdin_hook_path, <<"-","-","w","i","n","d","o","w","e","d">> >>

(* w.stdin_hook: whether writing stdin_hook.py succeeds *)
ConsoleArgs(b, w) ==
  IF b.console_mode THEN << <<"-","-","c","o","n","s","o","l","e">> >>
  ELSE (IF w.stdin_hook THEN << <<"-","-","r","u","n","t","i","m","e","-","h","o","o","k">>, stdin_hook_path >> ELSE <<>>)
       \o << <<"-","-","w","i","n","d","o","w","e","d">> >>

IconArgs(b, fs, plat) ==
  IF b.icon_file = None THEN <<>>
  ELSE IF ExistsAbs(AbsOf(b.icon_file), fs) THEN << <<"-","-","i","c","o","n">>, AbsOf(b.icon_file) >>
  ELSE IF detect_icon(b, fs, plat, FALSE) # None
       THEN << <<"-","-","i","c","o","n">>, AbsPath(detect_icon(b, fs, plat, FALSE)) >>
  ELSE <<>>

AddArgs(flag, files, plat) ==
  LET Arg(p) == << flag, p \o Separator(plat) \o DestDir(p) >>
  IN Flatten([i \in 1..Len(files) |-> Arg(files[i])])

(* for hidden_import in self.hidden_imports: a set of str is iterated in   *)
(* the order of its hash table, and the hashes of str are salted anew in  *)
(* every interpreter process, so the order is not fixed by the set.  Two  *)
(* of the orders are followed.                                            *)
SetOrders == { "forward", "reverse" }

IterationOrder(s, order) ==
  IF order = "forward" THEN SetToSeq(s)
  ELSE [i \in 1..Cardinality(s) |-> SetToSeq(s)[Cardinality(s) + 1 - i]]

HiddenArgs(b, w) ==
  LET Arg(h) == << <<"-","-","h","i","d","d","e","n","-","i","m","p","o","r","t">>, h >>
      hidden == IterationOrder(b.hidden_imports, w.order)
  IN Flatten([i \in 1..Len(hidden) |-> Arg(hidden[i])])

OptionArgs(b) ==
  (IF b.clean_build THEN << <<"-","-","c","l","e","a","n">> >> ELSE <<>>)
  \o (IF ~b.verbose THEN << <<"-","-","q","u","i","e","t">> >> ELSE <<>>)
  \o (IF b.optimize_level > 0 THEN << <<"-","-","o","p","t","i","m","i","z","e">>, Str(b.optimize_level) >> ELSE <<>>)
  \o (IF b.app_name # None THEN << <<"-","-","n","a","m","e">>, b.app_name >> ELSE <<>>)
  \o << <<"-","-","w","o","r","k","p","a","t","h">>, b.build_dir, <<"-","-","d","i","s","t","p","a","t","h">>, b.dist_dir >>
  \o (IF b.skip_timestamp THEN << <<"-","-","n","o","-","c","o","m","p","i","l","e">> >> ELSE <<>>)

(* os.path.isdir of a directory below the project root *)
IsDir(d, fs) ==
  \E i \in 1..Len(fs) : \E k \in 1..Len(fs[i].dir) :
     AbsPath(JoinPath(SubSeq(fs[i].dir, 1, k - 1), fs[i].dir[k])) = d

(* SmartExeBuilder.include_directory: a path below the project root is    *)
(* made relative, a path that is no directory is refused, and the tuple   *)
(* (directory, destination) is appended unless the list holds an equal    *)
(* element.                                                               *)
include_directory(b, directory_path, destination, fs) ==
  LET prefix == project_dir \o <<"/">>
      rel == IF IsAbs(directory_path) /\ StartsWith(directory_path, prefix)
             THEN SubSeq(directory_path, Len(prefix) + 1, Len(directory_path))
             ELSE directory_path
      dest == IF destination = None THEN DestDir(rel) ELSE destination
      directory_entry == Entry("tuple", rel, dest)
  IN IF ~IsDir(AbsOf(rel), fs) THEN [builder |-> b, value |-> FALSE]
     ELSE IF ~InSeq(directory_entry, b.include_directories)
     THEN [builder |-> [b EXCEPT !.include_directories = Append(@, directory_entry)],
           value |-> TRUE]
     ELSE [builder |-> b, value |-> FALSE]

exclude_directory(b, directory_path) ==
  IF ~InSeq(directory_path, b.excluded_directories)
  THEN [b EXCEPT !.excluded_directories = Append(@, directory_path)]
  ELSE b

(* for directory, destination in self.include_directories: a tuple and a  *)
(* list unpack alike                                                      *)
IncludeArgs(b, fs, plat) ==
  LET Arg(e) == IF IsDir(AbsOf(e.directory), fs)
                THEN << <<"-","-","a","d","d","-","d","a","t","a">>,
                        AbsOf(e.directory) \o Separator(plat) \o e.destination >>
                ELSE <<>>
  IN Flatten([i \in 1..Len(b.include_directories) |-> Arg(b.include_directories[i])])

ExcludeArgs(b) ==
  LET Arg(d) == << <<"-","-","e","x","c","l","u","d","e","-","m","o","d","u","l","e">>, d >>
  IN Flatten([i \in 1..Len(b.excluded_directories) |-> Arg(b.excluded_directories[i])])

TempArgs(b, fs) ==
  IF b.alt_temp_dir # None /\ (IsDir(b.alt_temp_dir, fs) \/ ExistsAbs(b.alt_temp_dir, fs))
  THEN << <<"-","-","w","o","r","k","p","a","t","h">>, b.alt_temp_dir >> ELSE <<>>

Mt5Args(b, w) ==
  IF b.mt5_detection /\ b.mt5_path # None /\ w.mt5_hook
  THEN << <<"-","-","r","u","n","t","i","m","e","-","h","o","o","k">>, mt5_hook_path >> ELSE <<>>

(* the Windows step taking the flag out and putting it back at the end *)
WindowsForce_Reappend(b, c) ==
  IF ~b.console_mode
  THEN Append(RemoveFirst(RemoveFirst(c, <<"-","-","c","o","n","s","o","l","e">>), <<"-","-","w","i","n","d","o","w","e","d">>), <<"-","-","w","i","n","d","o","w","e","d">>)
       \o << <<"-","-","u","a","c","-","a","d","m","i","n">> >>
  ELSE Append(RemoveFirst(RemoveFirst(c, <<"-","-","w","i","n","d","o","w","e","d">>), <<"-","-","c","o","n","s","o","l","e">>), <<"-","-","c","o","n","s","o","l","e">>)

(* the Windows step appending the flag without looking for it *)
WindowsForce_Unchecked(b, c) ==
  IF ~b.console_mode
  THEN Append(RemoveFirst(c, <<"-","-","c","o","n","s","o","l","e">>), <<"-","-","w","i","n","d","o","w","e","d">>) \o << <<"-","-","u","a","c","-","a","d","m","i","n">> >>
  ELSE Append(RemoveFirst(c, <<"-","-","w","i","n","d","o","w","e","d">>), <<"-","-","c","o","n","s","o","l","e">>)

(* lines 1236-1247: the console/windowed flags forced again on Windows *)
WindowsForce(b, c) ==
  IF ~b.console_mode
  THEN (IF InSeq(<<"-","-","w","i","n","d","o","w","e","d">>, RemoveFirst(c, <<"-","-","c","o","n","s","o","l","e">>))
        THEN RemoveFirst(c, <<"-","-","c","o","n","s","o","l","e">>)
        ELSE Append(RemoveFirst(c, <<"-","-","c","o","n","s","o","l","e">>), <<"-","-","w","i","n","d","o","w","e","d">>))
       \o << <<"-","-","u","a","c","-","a","d","m","i","n">> >>
  ELSE IF InSeq(<<"-","-","c","o","n","s","o","l","e">>, RemoveFirst(c, <<"-","-","w","i","n","d","o","w","e","d">>))
       THEN RemoveFirst(c, <<"-","-","w","i","n","d","o","w","e","d">>)
       ELSE Append(RemoveFirst(c, <<"-","-","w","i","n","d","o","w","e","d">>), <<"-","-","c","o","n","s","o","l","e">>)

WindowsArgs(b, plat, w, c) ==
  IF plat = "Windows"
  THEN WindowsForce(b, c \o (IF w.manifest THEN << <<"-","-","m","a","n","i","f","e","s","t">>, manifest_path >> ELSE <<>>))
  ELSE c

generate_command(b, main_file, fs, plat, w) ==
  WindowsArgs(b, plat, w,
      << <<"p","y","t","h","o","n">>, <<"-","m">>, <<"P","y","I","n","s","t","a","l","l","e","r">> >>
      \o ModeArgs(b)
      \o ConsoleArgs(b, w)
      \o IconArgs(b, fs, plat)
      \o AddArgs(<<"-","-","a","d","d","-","d","a","t","a">>, b.data_files, plat)
      \o AddArgs(<<"-","-","a","d","d","-","b","i","n","a","r","y">>, b.binary_files, plat)
      \o AddArgs(<<"-","-","a","d","d","-","d","a","t","a">>, b.resource_files, plat)
      \o IncludeArgs(b, fs, plat)
      \o ExcludeArgs(b)
      \o HiddenArgs(b, w)
      \o OptionArgs(b)
      \o TempArgs(b, fs)
      \o Mt5Args(b, w))
  \o << main_file >>

(* the auxiliary files that call of generate_command leaves written *)
Written(b, plat, w) ==
  (IF ~b.console_mode /\ w.stdin_hook THEN {"stdin_hook"} ELSE {})
  \cup (IF b.mt5_detection /\ b.mt5_path # None /\ w.mt5_hook THEN {"mt5_hook"} ELSE {})
  \cup (IF plat = "Windows" /\ w.manifest THEN {"manifest"} ELSE {})

(* what a call of generate_command meets: whether each auxiliary file can *)
(* be written, and the order in which the set is iterated                 *)
WriteOutcomes ==
  [stdin_hook : BOOLEAN, mt5_hook : BOOLEAN, manifest : BOOLEAN, order : SetOrders]

----------------------------------------------------------------------------
(* The program: main() started from the command line or as the GUI, and    *)
(* build() as the steps of its body.  A behaviour is one run of the        *)
(* program on a project root that an earlier run may have built before.    *)

Platforms == { <<"Windows", TRUE>>, <<"Darwin", TRUE>>, <<"Linux", FALSE>> }

NoRet == [fn |-> "none"]

NoUser == [main |-> None, console |-> "unset", one_file |-> "unset"]

NoLists == [python_files |-> {}, data_files |-> {}, resource_files |-> {}]

(* BuilderUI.__init__, lines 30-35, and beside its fields: lists, what    *)
(* the three file listboxes show; dir_list, the number of rows of the     *)
(* directory listbox; log, what self.builder.log is bound to, and         *)
(* original_log, the variable of that name that run_build closes over;    *)
(* by_worker, the widgets the worker thread has called; workers, the      *)
(* build threads running; replaced and current: while a build runs,       *)
(* builder is the object build() was called on, and when reset_config     *)
(* has put another object into self.builder meanwhile, current is that    *)
(* object; build_excluded, excluded_files when the build was started;     *)
(* widgets, what the main-file entry and the variables of the option      *)
(* widgets hold, an empty text being None.                                *)
Widgets == { "main_file", "app_name", "icon_file", "console_mode", "one_file", "mt5_detection" }

(* BuilderUI.update_ui_from_builder, lines 495-508; the variables are     *)
(* made with the same values (lines 226-283)                              *)
update_ui_from_builder(b) == [k \in Widgets |-> b[k]]

NoUI ==
  [selected_files |-> {}, excluded_files |-> {}, lists |-> NoLists, dir_list |-> 0,
   widgets |-> update_ui_from_builder(NewBuilder(None)),
   log |-> "log", original_log |-> "log", by_worker |-> {}, workers |-> 0,
   replaced |-> FALSE, current |-> None, build_excluded |-> {}]

AllWritten == [stdin_hook |-> TRUE, mt5_hook |-> TRUE, manifest |-> TRUE, order |-> "forward"]

Fs == Files(tree, gen, config_file)

(* the entry points a user may name: none, a source file of the project,  *)
(* or a file that does not exist                                          *)
UserMains == { None, <<"m","i","s","s","i","n","g",".","p","y">> } \cup { RelPath(tree[i]) : i \in { j \in 1..Len(tree) : IsSource(tree[j]) /\ IsTop(tree[j]) } }

(* the command-line flags and the widget settings explored *)
CliOptions ==
  { [onefile |-> FALSE, console |-> "unset"],
    [onefile |-> FALSE, console |-> "console"],
    [onefile |-> TRUE, console |-> "windowed"] }

GuiOptions ==
  { [console |-> TRUE, onefile |-> FALSE, mt5 |-> TRUE],
    [console |-> FALSE, onefile |-> TRUE, mt5 |-> TRUE],
    [console |-> TRUE, onefile |-> TRUE, mt5 |-> FALSE] }

(* What build() with no option given (main() with --nogui) leaves in a    *)
(* root that holds the files t and nothing of the tool's, every write     *)
(* succeeding and PIL absent: lines 1673-1704 in order.                   *)
EarlierBuild(t, plat, installed) ==
  LET fs0 == Files(t, {}, NoFile)
      b1 == scan_project(load_config(NewBuilder(None), NoFile), fs0)
      b2 == [b1 EXCEPT !.main_file = detect_main_file(b1, fs0)]
      b3 == detect_dependencies(b2, fs0, plat, installed)
      b4 == [b3 EXCEPT !.icon_file = detect_icon(b3, fs0, plat, FALSE)]
      b5 == [b4 EXCEPT !.console_mode = detect_console_mode(b4.main_file, fs0),
                       !.one_file = detect_one_file_mode(b4)]
  IN IF b2.main_file = None
     THEN [config_file |-> NoFile, gen |-> {}, cmd |-> <<>>]
     ELSE [config_file |-> save_config(b5), gen |-> Written(b5, plat, AllWritten),
           cmd |-> generate_command(b5, b5.main_file, Files(t, {}, save_config(b5)),
                                    plat, AllWritten)]

(* the root as the program finds it: never built, built before as it is   *)
(* now, or built before the user's last edit                              *)
PriorRoot(t, plat, installed, prior) ==
  IF prior = "never" THEN [config_file |-> NoFile, gen |-> {}]
  ELSE IF prior = "same" THEN EarlierBuild(t, plat, installed)
  ELSE EarlierBuild([i \in 1..Len(t) |-> Older(t[i])], plat, installed)

Init ==
  /\ tree \in Trees
  /\ \E p \in Platforms : platform = p[1] /\ mt5_installed = p[2]
  /\ \E prior \in {"never", "same", "older"} :
       /\ config_file = PriorRoot(tree, platform, mt5_installed, prior).config_file
       /\ gen = PriorRoot(tree, platform, mt5_installed, prior).gen
  /\ mode = "off"
  /\ builder = NewBuilder(None)
  /\ pc = "idle"
  /\ config_loaded = FALSE
  /\ cmd = <<>>
  /\ wrote = {}
  /\ success = FALSE
  /\ is_building = FALSE
  /\ scans = 0
  /\ ret = NoRet
  /\ user = NoUser
  /\ ui = NoUI
  /\ events = 0

DetectRet(b, fs) ==
  [fn |-> "detect_main_file", value |-> detect_main_file(b, fs), main_file |-> b.main_file,
   exists |-> Exists(b.main_file, fs), python_files |-> b.python_files]

(* main(), lines 1775-1806: the builder is made, the options applied, and *)
(* build() entered.                                                       *)
ApplyArgs(m, onefile, console) ==
  [NewBuilder(m) EXCEPT
     !.one_file = IF onefile THEN TRUE ELSE @,
     !.console_mode = IF console = "console" THEN TRUE
                      ELSE IF console = "windowed" THEN FALSE ELSE @]

StartCLI ==
  /\ mode = "off"
  /\ \E m \in UserMains, o \in CliOptions :
       /\ builder' = ApplyArgs(m, o.onefile, o.console)
       /\ user' = [main |-> m, console |-> o.console,
                   one_file |-> IF o.onefile THEN "yes" ELSE "unset"]
  /\ mode' = "cli" /\ pc' = "check"
  /\ UNCHANGED <<tree, platform, mt5_installed, gen, config_file, config_loaded, cmd, wrote,
                 success, is_building, scans, ret, ui, events>>

(* main(), lines 1808-1812, and BuilderUI.__init__ *)
StartGUI ==
  /\ mode = "off"
  /\ mode' = "gui"
  /\ UNCHANGED <<tree, platform, mt5_installed, gen, config_file, builder, pc, config_loaded,
                 cmd, wrote, success, is_building, scans, ret, user, ui, events>>

(* self.builder as a handler of the display thread finds it *)
UIBuilder == IF ui.replaced THEN ui.current ELSE builder

(* a handler leaves b in self.builder and u in the fields of the UI *)
UISet(b, u) ==
  IF ui.replaced THEN builder' = builder /\ ui' = [u EXCEPT !.current = b]
  ELSE builder' = b /\ ui' = u

(* BuilderUI.refresh_file_lists: the listboxes are filled from the lists  *)
(* of the builder                                                         *)
refresh_file_lists(b) ==
  [python_files |-> SeqToSet(b.python_files), data_files |-> SeqToSet(b.data_files),
   resource_files |-> SeqToSet(b.resource_files)]

(* BuilderUI.scan_project: the start-up scan (line 69) and the Refresh    *)
(* Files button                                                           *)
UIScan ==
  /\ mode = "gui" /\ scans < MaxScans
  /\ LET b1 == scan_project(UIBuilder, Fs)
     IN IF b1.main_file = None
        THEN /\ UISet([b1 EXCEPT !.main_file = detect_main_file(b1, Fs)],
                      [ui EXCEPT !.lists = refresh_file_lists(b1),
                                 !.widgets.main_file = detect_main_file(b1, Fs)])
             /\ ret' = DetectRet(b1, Fs)
        ELSE /\ UISet(b1, [ui EXCEPT !.lists = refresh_file_lists(b1),
                                     !.widgets.main_file = b1.main_file])
             /\ ret' = ret
  /\ scans' = scans + 1
  /\ UNCHANGED <<tree, platform, mt5_installed, gen, config_file, mode, pc,
                 config_loaded, cmd, wrote, success, is_building, user>>

(* BuilderUI.detect_main_file: the Detect button *)
UIDetectMain ==
  /\ mode = "gui" /\ scans >= 1
  /\ ret' = DetectRet(UIBuilder, Fs)
  /\ ui' = IF detect_main_file(UIBuilder, Fs) # None
           THEN [ui EXCEPT !.widgets.main_file = detect_main_file(UIBuilder, Fs)]
           ELSE ui
  /\ UNCHANGED <<tree, platform, mt5_installed, gen, config_file, mode, builder, pc,
                 config_loaded, cmd, wrote, success, is_building, scans, user>>

(* the user types a main file into the entry and sets the checkboxes *)
UIEdit ==
  /\ mode = "gui" /\ scans >= 1
  /\ \E m \in UserMains, o \in GuiOptions :
       ui' = [ui EXCEPT !.widgets.main_file = m, !.widgets.console_mode = o.console,
                        !.widgets.one_file = o.onefile, !.widgets.mt5_detection = o.mt5]
  /\ UNCHANGED <<tree, platform, mt5_installed, gen, config_file, mode, builder, pc,
                 config_loaded, cmd, wrote, success, is_building, scans, ret, user>>

(* BuilderUI.update_builder_from_ui.  Lines 521-533: the fields are set   *)
(* from the widgets; lines 536-545: the excluded files are taken out of   *)
(* the data and resource lists, and the selected files not in them are    *)
(* appended by their extension.                                           *)
update_builder_from_ui(b, widgets, selected, excluded) ==
  LET data == SelectSeq(b.data_files, LAMBDA f : f \notin excluded)
      resource == SelectSeq(b.resource_files, LAMBDA f : f \notin excluded)
      new == SetToSeq({ f \in selected : ~InSeq(f, data) /\ ~InSeq(f, resource) })
  IN [ k \in DOMAIN b |->
         IF k \in Widgets THEN widgets[k]
         ELSE IF k = "data_files"
         THEN data \o SelectSeq(new, LAMBDA f : EndsWithAny(f, data_ext))
         ELSE IF k = "resource_files"
         THEN resource \o SelectSeq(new, LAMBDA f : ~EndsWithAny(f, data_ext)
                                                    /\ EndsWithAny(f, resource_ext))
         ELSE b[k] ]

(* BuilderUI.build_executable: the Build Executable button *)
UIBuild ==
  /\ mode = "gui" /\ scans >= 1
  /\ IF is_building
     THEN UNCHANGED <<builder, pc, is_building, success, user, ui>>
     ELSE /\ builder' = update_builder_from_ui(builder, ui.widgets, ui.selected_files,
                                               ui.excluded_files)
          /\ IF ui.widgets.main_file = None
             THEN UNCHANGED <<pc, is_building, success, user, ui>>
             ELSE /\ pc' = "check" /\ is_building' = TRUE /\ success' = FALSE
                  /\ user' = [main |-> ui.widgets.main_file,
                              console |-> IF ui.widgets.console_mode THEN "console"
                                          ELSE "windowed",
                              one_file |-> IF ui.widgets.one_file THEN "yes" ELSE "no"]
                  /\ ui' = [ui EXCEPT !.original_log = ui.log, !.log = "ui_log",
                                      !.workers = @ + 1,
                                      !.build_excluded = ui.excluded_files]
  /\ UNCHANGED <<tree, platform, mt5_installed, gen, config_file, mode, config_loaded, cmd,
                 wrote, scans, ret>>

(* run_build with its try and except clauses but no finally clause: the   *)
(* flag and the log function are put back after a build that returned     *)
(* True only                                                              *)
WorkerDone_NoFinally ==
  /\ mode = "gui" /\ is_building /\ pc = "done"
  /\ is_building' = ~success /\ pc' = "idle"
  /\ builder' = UIBuilder
  /\ ui' = [ui EXCEPT !.log = IF success THEN ui.original_log ELSE @,
                      !.workers = @ - 1, !.by_worker = @ \cup {"messagebox"},
                      !.replaced = FALSE, !.current = None]
  /\ UNCHANGED <<tree, platform, mt5_installed, gen, config_file, mode,
                 config_loaded, cmd, wrote, success, scans, ret, user, events>>

(* run_build after build() has returned or raised, lines 635-643: the     *)
(* message box is opened by the worker thread, and the finally clause     *)
(* sets is_building and assigns original_log to self.builder.log, which   *)
(* is the object of reset_config when that has replaced the builder       *)
WorkerDone ==
  /\ mode = "gui" /\ is_building /\ pc = "done"
  /\ is_building' = FALSE /\ pc' = "idle"
  /\ builder' = UIBuilder
  /\ ui' = [ui EXCEPT !.log = ui.original_log, !.workers = @ - 1,
                      !.by_worker = @ \cup {"messagebox"},
                      !.replaced = FALSE, !.current = None]
  /\ UNCHANGED <<tree, platform, mt5_installed, gen, config_file, mode,
                 config_loaded, cmd, wrote, success, scans, ret, user, events>>

(* BuilderUI.mark_files without the removal from the other set *)
mark_files_KeepsOther(u, files, include) ==
  IF include THEN [u EXCEPT !.selected_files = @ \cup files]
  ELSE [u EXCEPT !.excluded_files = @ \cup files]

(* BuilderUI.mark_files, lines 368-376 *)
mark_files(u, files, include) ==
  IF include THEN [u EXCEPT !.selected_files = @ \cup files, !.excluded_files = @ \ files]
  ELSE [u EXCEPT !.excluded_files = @ \cup files, !.selected_files = @ \ files]

(* the Include and Exclude buttons under a listbox, with the rows the     *)
(* user has selected in it; with no row selected the handler returns      *)
(* (lines 363-364)                                                        *)
UIMark ==
  /\ mode = "gui" /\ scans >= 1
  /\ \E k \in DOMAIN NoLists, include \in BOOLEAN :
       \E files \in SUBSET ui.lists[k] \ {{}} :
          ui' = [mark_files(ui, files, include) EXCEPT
                   !.lists = refresh_file_lists(UIBuilder)]
  /\ UNCHANGED <<tree, platform, mt5_installed, gen, config_file, mode, builder, pc,
                 config_loaded, cmd, wrote, success, is_building, scans, ret, user>>

(* BuilderUI.clear_selection: the Clear Selection button *)
UIClearSelection ==
  /\ mode = "gui" /\ scans >= 1
  /\ ui' = [ui EXCEPT !.selected_files = {}, !.lists = refresh_file_lists(UIBuilder)]
  /\ UNCHANGED <<tree, platform, mt5_installed, gen, config_file, mode, builder, pc,
                 config_loaded, cmd, wrote, success, is_building, scans, ret, user>>

(* BuilderUI.reset_exclusions: the Reset Exclusions button *)
UIResetExclusions ==
  /\ mode = "gui" /\ scans >= 1
  /\ ui' = [ui EXCEPT !.excluded_files = {}, !.lists = refresh_file_lists(UIBuilder)]
  /\ UNCHANGED <<tree, platform, mt5_installed, gen, config_file, mode, builder, pc,
                 config_loaded, cmd, wrote, success, is_building, scans, ret, user>>

(* BuilderUI.update_command_preview: the Generate Command button; the     *)
(* command goes into the preview widget, the hook files and the manifest  *)
(* into the project root                                                  *)
UIGenerateCommand ==
  /\ mode = "gui" /\ scans >= 1
  /\ LET b1 == update_builder_from_ui(UIBuilder, ui.widgets, ui.selected_files,
                                       ui.excluded_files)
     IN /\ UISet(b1, ui)
        /\ IF b1.main_file = None THEN UNCHANGED gen
           ELSE \E w \in WriteOutcomes : gen' = gen \cup Written(b1, platform, w)
  /\ UNCHANGED <<tree, platform, mt5_installed, config_file, mode, pc, config_loaded, cmd,
                 wrote, success, is_building, scans, ret, user>>

(* what the user types into the directory entry *)
GuiDirectories == { <<"p","k","g">>, <<"n","o","d","i","r">> }

(* BuilderUI.add_directory: the Add button *)
UIAddDirectory ==
  /\ mode = "gui" /\ scans >= 1
  /\ \E d \in GuiDirectories :
       LET r == include_directory(UIBuilder, d, None, Fs)
       IN UISet(r.builder,
                [ui EXCEPT !.dir_list = IF r.value THEN Len(r.builder.include_directories)
                                        ELSE @])
  /\ UNCHANGED <<tree, platform, mt5_installed, gen, config_file, mode, pc, config_loaded,
                 cmd, wrote, success, is_building, scans, ret, user>>

(* BuilderUI.remove_directory: the Remove Selected button with one row    *)
(* selected.  The row number indexes self.builder.include_directories     *)
(* (line 700); a row the list no longer has raises IndexError, which      *)
(* ends the handler.                                                      *)
UIRemoveDirectory ==
  /\ mode = "gui" /\ scans >= 1
  /\ \E i \in 1..ui.dir_list :
       LET dirs == UIBuilder.include_directories
           left == SubSeq(dirs, 1, i - 1) \o SubSeq(dirs, i + 1, Len(dirs))
       IN IF i <= Len(dirs)
          THEN UISet([UIBuilder EXCEPT !.include_directories = left],
                     [ui EXCEPT !.dir_list = Len(left)])
          ELSE UNCHANGED <<builder, ui>>
  /\ UNCHANGED <<tree, platform, mt5_installed, gen, config_file, mode, pc, config_loaded,
                 cmd, wrote, success, is_building, scans, ret, user>>

(* BuilderUI.load_config_ui: the Load Configuration button, the user      *)
(* choosing the configuration file of the project root                    *)
UILoadConfig ==
  /\ mode = "gui" /\ scans >= 1 /\ config_file # NoFile
  /\ LET b1 == load_config_from_file(UIBuilder, config_file)
     IN UISet(b1, [ui EXCEPT !.widgets = update_ui_from_builder(b1),
                             !.lists = refresh_file_lists(b1),
                             !.dir_list = Len(b1.include_directories)])
  /\ UNCHANGED <<tree, platform, mt5_installed, gen, config_file, mode, pc, config_loaded,
                 cmd, wrote, success, is_building, scans, ret, user>>

(* BuilderUI.reset_config: the Reset to Defaults button, answered with    *)
(* yes.  self.builder becomes a new object; a build that is running       *)
(* keeps the object it was called on.                                     *)
UIReset ==
  /\ mode = "gui" /\ scans >= 1
  /\ IF is_building
     THEN /\ builder' = builder
          /\ ui' = [ui EXCEPT !.replaced = TRUE, !.current = NewBuilder(None),
                              !.log = "log", !.lists = NoLists, !.dir_list = 0,
                              !.widgets = update_ui_from_builder(NewBuilder(None))]
     ELSE /\ builder' = NewBuilder(None)
          /\ ui' = [ui EXCEPT !.log = "log", !.lists = NoLists, !.dir_list = 0,
                              !.widgets = update_ui_from_builder(NewBuilder(None))]
  /\ UNCHANGED <<tree, platform, mt5_installed, gen, config_file, mode, pc, config_loaded,
                 cmd, wrote, success, is_building, scans, ret, user>>

----------------------------------------------------------------------------
(* SmartExeBuilder.build, one action per statement of its body             *)

Env == <<tree, platform, mt5_installed>>

(* lines 1665-1670: the first messages are logged, which in a build of    *)
(* the GUI is ui_log (lines 598-627) called by the worker thread: it      *)
(* writes into the log widget and sets the progress variable; then        *)
(* check_pyinstaller finds or installs PyInstaller, or not                *)
BuildCheck ==
  /\ pc = "check"
  /\ \E ok \in BOOLEAN : pc' = IF ok THEN "load" ELSE "done"
  /\ ui' = IF mode = "gui" THEN [ui EXCEPT !.by_worker = @ \cup {"log_output", "progress_var"}]
           ELSE ui
  /\ UNCHANGED <<Env, gen, config_file, mode, builder, config_loaded, cmd, wrote, success,
                 is_building, scans, ret, user, events>>

(* line 1673 *)
BuildLoad ==
  /\ pc = "load"
  /\ config_loaded' = (config_file # NoFile)
  /\ builder' = load_config(builder, config_file)
  /\ pc' = "scan"
  /\ UNCHANGED <<Env, gen, config_file, mode, cmd, wrote, success, is_building, scans, ret,
                 user, ui, events>>

(* line 1676 *)
BuildScan ==
  /\ pc = "scan"
  /\ builder' = scan_project(builder, Fs)
  /\ scans' = scans + 1
  /\ pc' = "main"
  /\ UNCHANGED <<Env, gen, config_file, mode, config_loaded, cmd, wrote, success,
                 is_building, ret, user, ui, events>>

(* lines 1679-1682 *)
BuildMain ==
  /\ pc = "main"
  /\ IF builder.main_file = None
     THEN /\ builder' = [builder EXCEPT !.main_file = detect_main_file(builder, Fs)]
          /\ ret' = DetectRet(builder, Fs)
          /\ pc' = IF detect_main_file(builder, Fs) = None THEN "done" ELSE "deps"
     ELSE /\ pc' = "deps"
          /\ UNCHANGED <<builder, ret>>
  /\ UNCHANGED <<Env, gen, config_file, mode, config_loaded, cmd, wrote, success,
                 is_building, scans, user, ui, events>>

(* line 1685 *)
BuildDeps ==
  /\ pc = "deps"
  /\ builder' = detect_dependencies(builder, Fs, platform, mt5_installed)
  /\ pc' = "icon"
  /\ UNCHANGED <<Env, gen, config_file, mode, config_loaded, cmd, wrote, success,
                 is_building, scans, ret, user, ui, events>>

(* lines 1688-1693 *)
BuildIcon ==
  /\ pc = "icon"
  /\ IF builder.icon_file = None
     THEN \E pil \in BOOLEAN :
            /\ builder' = [builder EXCEPT !.icon_file = detect_icon(builder, Fs, platform, pil)]
            /\ gen' = IF IconCreated(builder, Fs, platform, pil)
                      THEN gen \cup {"default_icon"} ELSE gen
     ELSE UNCHANGED <<builder, gen>>
  /\ pc' = "modes"
  /\ UNCHANGED <<Env, config_file, mode, config_loaded, cmd, wrote, success,
                 is_building, scans, ret, user, ui, events>>

(* lines 1696-1698 *)
BuildModes ==
  /\ pc = "modes"
  /\ builder' = IF ~config_loaded
                THEN [builder EXCEPT
                        !.console_mode = detect_console_mode(builder.main_file, Fs),
                        !.one_file = detect_one_file_mode(builder)]
                ELSE builder
  /\ pc' = "save"
  /\ UNCHANGED <<Env, gen, config_file, mode, config_loaded, cmd, wrote, success,
                 is_building, scans, ret, user, ui, events>>

(* line 1701; ret.before: the configuration file the build found *)
BuildSave ==
  /\ pc = "save"
  /\ config_file' = save_config(builder)
  /\ ret' = [fn |-> "save_config", before |-> config_file]
  /\ pc' = "generate"
  /\ UNCHANGED <<Env, gen, mode, builder, config_loaded, cmd, wrote, success,
                 is_building, scans, user, ui, events>>

(* line 1704 *)
BuildGenerate ==
  /\ pc = "generate"
  /\ \E w \in WriteOutcomes :
       /\ cmd' = generate_command(builder, builder.main_file, Fs, platform, w)
       /\ wrote' = Written(builder, platform, w)
       /\ gen' = gen \cup Written(builder, platform, w)
  /\ pc' = "run"
  /\ UNCHANGED <<Env, config_file, mode, builder, config_loaded, success,
                 is_building, scans, ret, user, ui, events>>

(* SmartExeBuilder.run_command, lines 1420-1480.  o.stale: what becomes of *)
(* an executable of an earlier build at the path of line 1431: there is   *)
(* none, os.remove removes it, os.remove raises PermissionError, or it    *)
(* raises another OSError (the path is a directory, the file system is    *)
(* read-only, the file vanished).  o.popen: whether Popen starts the      *)
(* packager; o.output: the lines it prints; o.exit: its exit code.  Only  *)
(* PermissionError is caught beside the removal (1440); any other         *)
(* exception reaches the handler of line 1478.  The loop of lines         *)
(* 1456-1459 reads the pipe to its end and logs the lines, so the test of *)
(* line 1468 finds in process.stdout what is left behind the last line.   *)
exe_name(b) == IF b.app_name # None THEN b.app_name ELSE Stem(Basename(b.main_file))

(* verify_build_artifacts, lines 1717-1725: where the executable is       *)
(* looked for after the run                                               *)
verify_exe_path(b, plat) ==
  IF plat = "Windows"
  THEN (IF ~b.one_file THEN b.dist_dir \o <<"/">> \o exe_name(b) \o <<"/">> \o exe_name(b) \o <<".","e","x","e">>
        ELSE b.dist_dir \o <<"/">> \o exe_name(b) \o <<".","e","x","e">>)
  ELSE (IF ~b.one_file THEN b.dist_dir \o <<"/">> \o exe_name(b) \o <<"/">> \o exe_name(b)
        ELSE b.dist_dir \o <<"/">> \o exe_name(b))

(* the old executable looked for where the new one will be verified *)
stale_exe_path_AsVerified(b, plat) == verify_exe_path(b, plat)

(* run_command, lines 1425-1431: where an old executable is looked for    *)
(* before the run, on every platform                                      *)
stale_exe_path(b, plat) == b.dist_dir \o <<"/">> \o exe_name(b) \o <<".","e","x","e">>

run_command_Started(o) ==
  [value |-> o.stale # "other" /\ o.popen, started |-> o.stale # "other" /\ o.popen,
   warned |-> o.stale # "absent", hints |-> FALSE]

run_command(o) ==
  LET started == o.stale # "other" /\ o.popen
      streamed == SubSeq(o.output, 1, Len(o.output))
      rest == SubSeq(o.output, Len(streamed) + 1, Len(o.output))
      joined == Flatten([i \in 1..Len(rest) |-> rest[i] \o <<" ">>])
  IN [value |-> started /\ o.exit = 0,
      started |-> started,
      warned |-> o.stale # "absent",
      hints |-> started /\ o.exit # 0 /\ Contains(joined, <<"P","e","r","m","i","s","s","i","o","n"," ","d","e","n","i","e","d">>)]

(* what a run of the packager can come to; found: whether the executable *)
(* is where verify_build_artifacts looks for it                           *)
RunOutcomes ==
  { [stale |-> "absent", popen |-> FALSE, exit |-> 0, output |-> <<>>, found |-> FALSE],
    [stale |-> "absent", popen |-> TRUE, exit |-> 0,
     output |-> << <<"B","u","i","l","d","i","n","g"," ","E","X","E"," ","c","o","m","p","l","e","t","e","d">> >>, found |-> TRUE],
    [stale |-> "absent", popen |-> TRUE, exit |-> 0,
     output |-> << <<"B","u","i","l","d","i","n","g"," ","E","X","E"," ","c","o","m","p","l","e","t","e","d">> >>, found |-> FALSE],
    [stale |-> "absent", popen |-> TRUE, exit |-> 1,
     output |-> << <<"S","y","n","t","a","x","E","r","r","o","r",":"," ","i","n","v","a","l","i","d"," ","s","y","n","t","a","x">> >>, found |-> FALSE],
    [stale |-> "removed", popen |-> TRUE, exit |-> 0,
     output |-> << <<"B","u","i","l","d","i","n","g"," ","E","X","E"," ","c","o","m","p","l","e","t","e","d">> >>, found |-> TRUE],
    [stale |-> "permission", popen |-> TRUE, exit |-> 1,
     output |-> << <<"B","u","i","l","d","i","n","g"," ","E","X","E">>, <<"P","e","r","m","i","s","s","i","o","n","E","r","r","o","r",":"," ","P","e","r","m","i","s","s","i","o","n"," ","d","e","n","i","e","d",":"," ","a","p","p",".","e","x","e">> >>,
     found |-> FALSE],
    [stale |-> "other", popen |-> TRUE, exit |-> 0,
     output |-> << <<"B","u","i","l","d","i","n","g"," ","E","X","E"," ","c","o","m","p","l","e","t","e","d">> >>, found |-> TRUE] }

(* the packager started again after a run that failed *)
BuildRun_Retry ==
  /\ pc = "run"
  /\ \E o \in RunOutcomes :
       /\ success' = run_command(o).value
       /\ ret' = [fn |-> "run_command", stale |-> o.stale, popen |-> o.popen,
                  started |-> run_command(o).started, exit |-> o.exit,
                  output |-> o.output, value |-> run_command(o).value,
                  warned |-> run_command(o).warned,
                  hints |-> run_command(o).hints,
                  exe_path |-> stale_exe_path(builder, platform),
                  verify_path |-> IF run_command(o).value
                                  THEN verify_exe_path(builder, platform) ELSE None,
                  verified |-> IF ~run_command(o).value THEN "not run"
                               ELSE IF o.found THEN "found" ELSE "missing"]
       /\ ui' = IF mode = "gui" /\ run_command(o).value
                THEN [ui EXCEPT !.by_worker = @ \cup {"executable_location"}]
                ELSE ui
       /\ pc' = IF run_command(o).value \/ ret.fn = "run_command" THEN "done" ELSE "run"
  /\ UNCHANGED <<Env, gen, config_file, mode, builder, config_loaded, cmd, wrote,
                 is_building, scans, user, events>>

(* lines 1706-1713: success = run_command(cmd); verify_build_artifacts,   *)
(* which only looks and logs, is called if success; build returns         *)
(* success.  In a build of the GUI the message of line 1464 makes ui_log  *)
(* rewrite the executable-location entry (lines 602-614), on the worker   *)
(* thread.                                                                *)
BuildRun ==
  /\ pc = "run"
  /\ \E o \in RunOutcomes :
       /\ success' = run_command(o).value
       /\ ret' = [fn |-> "run_command", stale |-> o.stale, popen |-> o.popen,
                  started |-> run_command(o).started, exit |-> o.exit,
                  output |-> o.output, value |-> run_command(o).value,
                  warned |-> run_command(o).warned,
                  hints |-> run_command(o).hints,
                  exe_path |-> stale_exe_path(builder, platform),
                  verify_path |-> IF run_command(o).value
                                  THEN verify_exe_path(builder, platform) ELSE None,
                  verified |-> IF ~run_command(o).value THEN "not run"
                               ELSE IF o.found THEN "found" ELSE "missing"]
       /\ ui' = IF mode = "gui" /\ run_command(o).value
                THEN [ui EXCEPT !.by_worker = @ \cup {"executable_location"}]
                ELSE ui
  /\ pc' = "done"
  /\ UNCHANGED <<Env, gen, config_file, mode, builder, config_loaded, cmd, wrote,
                 is_building, scans, user, events>>

Build ==
  \/ BuildCheck \/ BuildLoad \/ BuildScan \/ BuildMain \/ BuildDeps \/ BuildIcon
  \/ BuildModes \/ BuildSave \/ BuildGenerate \/ BuildRun

(* A session of the GUI is followed up to the end of its first build:     *)
(* the buttons are pressed before it.                                     *)
Session == ~is_building /\ user = NoUser /\ UNCHANGED events

SessionScan == Session /\ UIScan

SessionDetectMain == Session /\ UIDetectMain

SessionEdit == Session /\ UIEdit

SessionBuild == Session /\ UIBuild

Next ==
  StartCLI \/ StartGUI \/ SessionScan \/ SessionDetectMain \/ SessionEdit \/ SessionBuild
    \/ WorkerDone \/ Build

Spec == Init /\ [][Next]_vars

----------------------------------------------------------------------------
(* detect_one_file_mode on its own: a configuration with any two list      *)
(* lengths up to MaxAssets, and one call.                                  *)

Repeat(x, n) == [i \in 1..n |-> x]

OneFileInit ==
  /\ tree = <<>>
  /\ platform = "Linux"
  /\ mt5_installed = FALSE
  /\ gen = {}
  /\ config_file = NoFile
  /\ mode = "cli"
  /\ \E n \in 0..MaxAssets, m \in 0..MaxAssets, c \in BOOLEAN, o \in BOOLEAN :
       builder = [NewBuilder(None) EXCEPT !.data_files = Repeat(<<"d","a","t","a",".","j","s","o","n">>, n),
                                          !.resource_files = Repeat(<<"l","o","g","o",".","p","n","g">>, m),
                                          !.console_mode = c, !.one_file = o]
  /\ pc = "modes"
  /\ config_loaded = FALSE
  /\ cmd = <<>>
  /\ wrote = {}
  /\ success = FALSE
  /\ is_building = FALSE
  /\ scans = 0
  /\ ret = NoRet
  /\ user = NoUser
  /\ ui = NoUI
  /\ events = 0

OneFileCall ==
  /\ pc = "modes" /\ ret = NoRet
  /\ ret' = [fn |-> "detect_one_file_mode", value |-> detect_one_file_mode(builder),
             builder |-> builder]
  /\ UNCHANGED <<tree, platform, mt5_installed, gen, config_file, mode, builder, pc,
                 config_loaded, cmd, wrote, success, is_building, scans, user, ui, events>>

OneFileSpec == OneFileInit /\ [][OneFileCall]_vars

----------------------------------------------------------------------------
(* Properties.                                                             *)

(* C1: detect_main_file returns the result of the first of its rules that  *)
(* succeeds, in this order: the main file given, if it exists under the    *)
(* root; the first of main.py, app.py, run.py, start.py, cli.py that is in *)
(* the source-file list; the first source file, in list order, holding the *)
(* __main__ guard; the only source file; a source file of largest size.    *)
C1_StrictPriority ==
  ret.fn = "detect_main_file" =>
    LET pf == ret.python_files
        v == ret.value
        names == << <<"m","a","i","n",".","p","y">>, <<"a","p","p",".","p","y">>, <<"r","u","n",".","p","y">>, <<"s","t","a","r","t",".","p","y">>, <<"c","l","i",".","p","y">> >>
        explicit == ret.main_file # None /\ ret.exists
        named == { i \in 1..Len(names) : InSeq(names[i], pf) }
        guarded == { i \in 1..Len(pf) : HasGuard(pf[i], Fs) }
    IN /\ explicit => v = ret.main_file
       /\ (~explicit /\ named # {}) =>
            \E i \in named : v = names[i] /\ \A j \in named : i <= j
       /\ (~explicit /\ named = {} /\ guarded # {}) =>
            \E i \in guarded : v = pf[i] /\ \A j \in guarded : i <= j
       /\ (~explicit /\ named = {} /\ guarded = {} /\ Len(pf) = 1) => v = pf[1]
       /\ (~explicit /\ named = {} /\ guarded = {} /\ Len(pf) # 1 /\ v # None) =>
            \E i \in 1..Len(pf) :
               v = pf[i] /\ \A j \in 1..Len(pf) : SizeOf(pf[j], Fs) <= SizeOf(pf[i], Fs)

(* a file with the guard comes first in the list, a conventionally named  *)
(* file after it, and the conventionally named one is returned            *)
C1_Witness ==
  /\ ret.fn = "detect_main_file"
  /\ ret.main_file = None
  /\ Len(ret.python_files) >= 2
  /\ ret.python_files[1] = <<"t","o","o","l",".","p","y">> /\ HasGuard(<<"t","o","o","l",".","p","y">>, Fs)
  /\ ret.python_files[2] = <<"a","p","p",".","p","y">>
  /\ ret.value = <<"a","p","p",".","p","y">>

(* C2: detect_main_file returns None only if the source-file list is      *)
(* empty: for every non-empty list some source file is returned.          *)
C2_NoneOnlyIfEmpty ==
  (ret.fn = "detect_main_file" /\ ret.python_files # <<>>) =>
     InSeq(ret.value, ret.python_files) \/ (ret.value = ret.main_file /\ ret.exists)

(* C3: after one scan_project every recorded file is in at most one of    *)
(* the four category lists, the one its extension selects, a file of no   *)
(* listed extension is in detected_files and in no category list, and no  *)
(* file under a top-level directory named in the exclusion list is in     *)
(* detected_files or in a category list.                                  *)
C3_OneCategoryByExtension ==
  scans = 1 =>
    LET b == builder
        lists == << b.python_files, b.resource_files, b.data_files, b.binary_files >>
        exts == << { <<".","p","y">> },
                   { <<".","p","n","g">>, <<".","j","p","g">>, <<".","j","p","e","g">>, <<".","g","i","f">>, <<".","i","c","o">>, <<".","s","v","g">> },
                   { <<".","j","s","o","n">>, <<".","c","s","v">>, <<".","t","x","t">>, <<".","x","m","l">>, <<".","h","t","m","l">>, <<".","c","s","s">> },
                   { <<".","d","l","l">>, <<".","s","o">>, <<".","d","y","l","i","b">> } >>
    IN /\ \A i \in 1..Len(b.detected_files) : \A c \in 1..4 :
            InSeq(b.detected_files[i], lists[c]) <=> Ext(Basename(b.detected_files[i])) \in exts[c]
       /\ \A i \in 1..Len(b.detected_files) :
            Cardinality({ c \in 1..4 : InSeq(b.detected_files[i], lists[c]) }) <= 1
       /\ \A c \in 1..4 : \A k \in 1..Len(lists[c]) : InSeq(lists[c][k], b.detected_files)
       /\ \A i \in 1..Len(tree) :
            (tree[i].dir # <<>> /\ InSeq(tree[i].dir[1], excluded_packages))
              => ~InSeq(RelPath(tree[i]), b.detected_files)

(* one scan of a root that holds a file of each category, a file of no    *)
(* listed extension and a file under build/                               *)
C3_Witness ==
  /\ scans = 1
  /\ InSeq(f_build_out, tree)
  /\ ~InSeq(<<"b","u","i","l","d","/","o","u","t",".","t","x","t">>, builder.detected_files)
  /\ InSeq(<<"t","o","o","l",".","p","y">>, builder.python_files)
  /\ InSeq(<<"l","o","g","o",".","p","n","g">>, builder.resource_files)
  /\ InSeq(<<"d","a","t","a",".","j","s","o","n">>, builder.data_files)
  /\ InSeq(<<"l","i","b",".","d","l","l">>, builder.binary_files)
  /\ InSeq(<<"n","o","t","e","s",".","m","d">>, builder.detected_files)
  /\ ~InSeq(<<"n","o","t","e","s",".","m","d">>, builder.python_files \o builder.resource_files
                           \o builder.data_files \o builder.binary_files)

(* C4: scan_project skips a file if and only if the first segment of its  *)
(* path relative to the root equals an entry of the exclusion list; every *)
(* other file under the root is recorded in detected_files.               *)
C4_SkipsFirstSegmentOnly ==
  scans >= 1 =>
    \A i \in 1..Len(tree) :
       LET first == IF tree[i].dir = <<>> THEN tree[i].name ELSE tree[i].dir[1]
       IN InSeq(RelPath(tree[i]), builder.detected_files) <=> ~InSeq(first, excluded_packages)

(* C5: after any sequence of scan_project calls on one configuration over *)
(* an unchanged tree, each of the five lists holds every path at most     *)
(* once.                                                                  *)
C5_NoDuplicatePaths ==
  /\ NoDuplicates(builder.detected_files)
  /\ NoDuplicates(builder.python_files)
  /\ NoDuplicates(builder.resource_files)
  /\ NoDuplicates(builder.data_files)
  /\ NoDuplicates(builder.binary_files)

(* C6: in build(), a console mode or single-file mode the user chose is   *)
(* the value generate_command uses.                                       *)
C6_UserChoiceKept ==
  pc = "run" =>
    /\ user.console = "console" => builder.console_mode /\ InSeq(<<"-","-","c","o","n","s","o","l","e">>, cmd)
    /\ user.console = "windowed" => ~builder.console_mode /\ InSeq(<<"-","-","w","i","n","d","o","w","e","d">>, cmd)
    /\ user.one_file = "yes" => builder.one_file /\ InSeq(<<"-","-","o","n","e","f","i","l","e">>, cmd)
    /\ user.one_file = "no" => ~builder.one_file /\ InSeq(<<"-","-","o","n","e","d","i","r">>, cmd)

(* C7: an entry point given explicitly that exists under the root is the  *)
(* entry point build() appends to the command, also when a persisted      *)
(* pyinstaller_config.json names another main_file.                       *)
C7_ExplicitMainUsed ==
  (pc = "run" /\ user.main # None /\ Exists(user.main, Fs)) => cmd[Len(cmd)] = user.main

C9_ThresholdTen ==
  ret.fn = "detect_one_file_mode" =>
    /\ ret.value = FALSE <=> Len(ret.builder.data_files) + Len(ret.builder.resource_files) > 10
    /\ ret.value = TRUE <=> Len(ret.builder.data_files) + Len(ret.builder.resource_files) <= 10
    /\ builder = ret.builder

(* eleven files in the two lists together, and directory mode returned *)
C9_Witness ==
  /\ ret.fn = "detect_one_file_mode"
  /\ Len(ret.builder.data_files) + Len(ret.builder.resource_files) = 11
  /\ Len(ret.builder.data_files) = 4
  /\ ret.value = FALSE

(* C10, as the specification states it: when the imports of the source    *)
(* files contain MetaTrader5, detect_dependencies leaves the six vendor   *)
(* submodule names in hidden_imports, whatever the flags.                 *)
C10_VendorImportsAlways ==
  (pc = "icon" /\ <<"M","e","t","a","T","r","a","d","e","r","5">> \in AllImports(builder, Fs)) =>
     { <<"M","e","t","a","T","r","a","d","e","r","5",".","s","y","m","b","o","l","s","_","g","e","t">>, <<"M","e","t","a","T","r","a","d","e","r","5",".","o","r","d","e","r","_","s","e","n","d">>, <<"M","e","t","a","T","r","a","d","e","r","5",".","p","o","s","i","t","i","o","n","s","_","g","e","t">>,
       <<"M","e","t","a","T","r","a","d","e","r","5",".","a","c","c","o","u","n","t","_","i","n","f","o">>, <<"M","e","t","a","T","r","a","d","e","r","5",".","t","e","r","m","i","n","a","l","_","i","n","f","o">>,
       <<"M","e","t","a","T","r","a","d","e","r","5",".","c","o","p","y","_","r","a","t","e","s","_","f","r","o","m">> } \subseteq builder.hidden_imports

(* C10, amended: when the imports of the source files contain MetaTrader5 *)
(* and mt5_detection is on, detect_dependencies leaves the six vendor     *)
(* submodule names in hidden_imports, whether or not an installation was  *)
(* found.                                                                 *)
C10_VendorImportsWhenEnabled ==
  (pc = "icon" /\ builder.mt5_detection /\ <<"M","e","t","a","T","r","a","d","e","r","5">> \in AllImports(builder, Fs)) =>
     { <<"M","e","t","a","T","r","a","d","e","r","5",".","s","y","m","b","o","l","s","_","g","e","t">>, <<"M","e","t","a","T","r","a","d","e","r","5",".","o","r","d","e","r","_","s","e","n","d">>, <<"M","e","t","a","T","r","a","d","e","r","5",".","p","o","s","i","t","i","o","n","s","_","g","e","t">>,
       <<"M","e","t","a","T","r","a","d","e","r","5",".","a","c","c","o","u","n","t","_","i","n","f","o">>, <<"M","e","t","a","T","r","a","d","e","r","5",".","t","e","r","m","i","n","a","l","_","i","n","f","o">>,
       <<"M","e","t","a","T","r","a","d","e","r","5",".","c","o","p","y","_","r","a","t","e","s","_","f","r","o","m">> } \subseteq builder.hidden_imports

(* MetaTrader5 is imported, detection is on, no installation was found,   *)
(* and the submodule names are there                                      *)
C10_Witness ==
  /\ pc = "icon" /\ builder.mt5_detection
  /\ ~config_loaded
  /\ <<"M","e","t","a","T","r","a","d","e","r","5">> \in AllImports(builder, Fs)
  /\ builder.mt5_path = None
  /\ <<"M","e","t","a","T","r","a","d","e","r","5",".","o","r","d","e","r","_","s","e","n","d">> \in builder.hidden_imports

----------------------------------------------------------------------------
(* detect_dependencies called repeatedly on one configuration: the source  *)
(* list of a scanned root, with the vendor flag on or off and with or      *)
(* without a hidden import already recorded.                               *)

DepsInit ==
  /\ tree \in Trees
  /\ \E p \in Platforms : platform = p[1] /\ mt5_installed = p[2]
  /\ gen = {}
  /\ config_file = NoFile
  /\ mode = "cli"
  /\ \E d \in BOOLEAN, h \in { {}, {<<"c","u","s","t","o","m",".","p","l","u","g","i","n">>} } :
       builder = [scan_project(NewBuilder(None), Files(tree, {}, NoFile))
                    EXCEPT !.mt5_detection = d, !.hidden_imports = h]
  /\ pc = "deps"
  /\ config_loaded = FALSE
  /\ cmd = <<>>
  /\ wrote = {}
  /\ success = FALSE
  /\ is_building = FALSE
  /\ scans = 1
  /\ ret = [fn |-> "detect_dependencies", calls |-> 0, once |-> {}]
  /\ user = NoUser
  /\ ui = NoUI
  /\ events = 0

DepsCall ==
  /\ pc = "deps" /\ ret.calls < MaxCalls
  /\ builder' = detect_dependencies(builder, Fs, platform, mt5_installed)
  /\ ret' = [ret EXCEPT !.calls = @ + 1,
                        !.once = IF ret.calls = 0 THEN builder'.hidden_imports ELSE @]
  /\ UNCHANGED <<tree, platform, mt5_installed, gen, config_file, mode, pc,
                 config_loaded, cmd, wrote, success, is_building, scans, user, ui, events>>

DepsSpec == DepsInit /\ [][DepsCall]_vars

----------------------------------------------------------------------------
(* The configuration methods of SmartExeBuilder called in any order on one *)
(* project root, as the command line (--include-dir) and the GUI (Add      *)
(* Directory, Save Configuration, Load Configuration, Reset to Defaults)   *)
(* and build() call them.  One file stands for pyinstaller_config.json,    *)
(* which the file dialogs can name as well.  ret keeps the configuration   *)
(* before the last call, the configuration save_config_to_file last wrote  *)
(* and whether the file still is what that call wrote.                     *)

ConfigTree == << f_app, f_pkg_main, f_src_build_gen >>

CfgInit ==
  /\ tree = ConfigTree
  /\ platform = "Linux"
  /\ mt5_installed = FALSE
  /\ gen = {}
  /\ config_file = NoFile
  /\ mode = "gui"
  /\ \E m \in {None, <<"a","p","p",".","p","y">>}, h \in { {}, {<<"c","u","s","t","o","m",".","p","l","u","g","i","n">>, <<"t","k","i","n","t","e","r",".","c","o","m","m","o","n","d","i","a","l","o","g">>} } :
       builder = [scan_project(NewBuilder(m), Files(tree, {}, NoFile))
                    EXCEPT !.hidden_imports = h]
  /\ pc = "idle"
  /\ config_loaded = FALSE
  /\ cmd = <<>>
  /\ wrote = {}
  /\ success = FALSE
  /\ is_building = FALSE
  /\ scans = 1
  /\ ret = [fn |-> "none", calls |-> 0, value |-> FALSE, before |-> NewBuilder(None),
            saved |-> NewBuilder(None), intact |-> FALSE]
  /\ user = NoUser
  /\ ui = NoUI
  /\ events = 0

CfgFrame ==
  UNCHANGED <<tree, platform, mt5_installed, gen, mode, pc, config_loaded, cmd, wrote,
              success, is_building, scans, user, ui, events>>

CfgRet(fn, value) == [ret EXCEPT !.fn = fn, !.calls = @ + 1, !.value = value, !.before = builder]

CfgInclude ==
  /\ ret.calls < MaxOps
  /\ \E d \in { <<"p","k","g">>, <<"/","p","r","o","j","/","p","k","g">>, <<"n","o","d","i","r">> }, dest \in { None, <<"l","i","b">> } :
       /\ builder' = include_directory(builder, d, dest, Fs).builder
       /\ ret' = CfgRet("include_directory", include_directory(builder, d, dest, Fs).value)
  /\ UNCHANGED config_file
  /\ CfgFrame

CfgSave ==
  /\ ret.calls < MaxOps
  /\ config_file' = save_config(builder)
  /\ ret' = [CfgRet("save_config", TRUE) EXCEPT !.intact = FALSE]
  /\ UNCHANGED builder
  /\ CfgFrame

CfgSaveToFile ==
  /\ ret.calls < MaxOps
  /\ config_file' = save_config_to_file(builder)
  /\ ret' = [CfgRet("save_config_to_file", TRUE) EXCEPT !.intact = TRUE, !.saved = builder]
  /\ UNCHANGED builder
  /\ CfgFrame

CfgLoad ==
  /\ ret.calls < MaxOps
  /\ builder' = load_config(builder, config_file)
  /\ ret' = CfgRet("load_config", config_file # NoFile)
  /\ UNCHANGED config_file
  /\ CfgFrame

CfgLoadFromFile ==
  /\ ret.calls < MaxOps
  /\ builder' = load_config_from_file(builder, config_file)
  /\ ret' = CfgRet("load_config_from_file", config_file # NoFile)
  /\ UNCHANGED config_file
  /\ CfgFrame

(* BuilderUI.reset_config: a new SmartExeBuilder *)
CfgReset ==
  /\ ret.calls < MaxOps
  /\ builder' = NewBuilder(None)
  /\ ret' = CfgRet("reset_config", TRUE)
  /\ UNCHANGED config_file
  /\ CfgFrame

(* a file of another version of the tool, or edited by hand: one field of *)
(* the file is not there                                                  *)
CfgOlderFile ==
  /\ ret.calls < MaxOps /\ config_file # NoFile /\ Persisted \subseteq DOMAIN config_file
  /\ \E k \in (DOMAIN config_file) \ {"present"} :
       config_file' = [j \in (DOMAIN config_file) \ {k} |-> config_file[j]]
  /\ ret' = [CfgRet("edit", TRUE) EXCEPT !.intact = FALSE]
  /\ UNCHANGED builder
  /\ CfgFrame

CfgNext ==
  \/ CfgInclude \/ CfgSave \/ CfgSaveToFile \/ CfgLoad \/ CfgLoadFromFile \/ CfgReset
  \/ CfgOlderFile

ConfigSpec == CfgInit /\ [][CfgNext]_vars

----------------------------------------------------------------------------
(* generate_command called repeatedly on one configuration: what main()    *)
(* and build() up to line 1701 leave for a root and a set of command-line  *)
(* options, as it is or as read back from its configuration file.  Every   *)
(* call meets the same file system, so the writes fare as in the first     *)
(* call; the interpreter process, and with it the order of the set, may be *)
(* another.                                                                *)

CmdProfiles ==
  { [onefile |-> FALSE, skip |-> FALSE, include |-> <<>>, exclude |-> <<>>,
     temp |-> None, pil |-> FALSE, reload |-> FALSE],
    [onefile |-> TRUE, skip |-> TRUE, include |-> << <<"p","k","g">> >>, exclude |-> << <<"t","e","s","t","s">> >>,
     temp |-> <<"/","p","r","o","j","/","p","k","g">>, pil |-> TRUE, reload |-> FALSE],
    [onefile |-> FALSE, skip |-> FALSE, include |-> << <<"p","k","g">>, <<"s","r","c">> >>,
     exclude |-> << <<"t","e","s","t","s">>, <<"d","o","c","s">> >>, temp |-> <<"/","n","o","w","h","e","r","e">>, pil |-> FALSE,
     reload |-> TRUE] }

Configured(t, plat, installed, p, console) ==
  LET fs == Files(t, {}, NoFile)
      a0 == [NewBuilder(None) EXCEPT !.one_file = p.onefile, !.skip_timestamp = p.skip,
                                     !.alt_temp_dir = p.temp]
      a1 == IF Len(p.include) >= 1 THEN include_directory(a0, p.include[1], None, fs).builder
            ELSE a0
      a2 == IF Len(p.include) >= 2 THEN include_directory(a1, p.include[2], None, fs).builder
            ELSE a1
      a3 == IF Len(p.exclude) >= 1 THEN exclude_directory(a2, p.exclude[1]) ELSE a2
      a4 == IF Len(p.exclude) >= 2 THEN exclude_directory(a3, p.exclude[2]) ELSE a3
      b1 == scan_project(a4, fs)
      b2 == [b1 EXCEPT !.main_file = detect_main_file(b1, fs)]
      b3 == detect_dependencies(b2, fs, plat, installed)
      b4 == [b3 EXCEPT !.icon_file = detect_icon(b3, fs, plat, p.pil)]
      b5 == [b4 EXCEPT !.console_mode = console]
  IN IF p.reload THEN load_config(b5, save_config(b5)) ELSE b5

CmdInit ==
  /\ tree \in Trees
  /\ \E p \in Platforms : platform = p[1] /\ mt5_installed = p[2]
  /\ \E p \in CmdProfiles, console \in BOOLEAN :
       /\ builder = Configured(tree, platform, mt5_installed, p, console)
       /\ gen = IF builder.icon_file = default_icon_path THEN {"default_icon"} ELSE {}
       /\ config_file = save_config(builder)
  /\ builder.main_file # None
  /\ mode = "cli"
  /\ pc = "generate"
  /\ config_loaded = FALSE
  /\ cmd = <<>>
  /\ wrote = {}
  /\ success = FALSE
  /\ is_building = FALSE
  /\ scans = 1
  /\ ret = [fn |-> "generate_command", calls |-> 0, first |-> <<>>, w |-> AllWritten]
  /\ user = NoUser
  /\ ui = NoUI
  /\ events = 0

CmdCall ==
  /\ pc = "generate" /\ ret.calls < MaxCalls
  /\ \E w \in WriteOutcomes :
       /\ ret.calls > 0 => \A k \in {"stdin_hook", "mt5_hook", "manifest"} : w[k] = ret.w[k]
       /\ cmd' = generate_command(builder, builder.main_file, Fs, platform, w)
       /\ wrote' = Written(builder, platform, w)
       /\ gen' = gen \cup Written(builder, platform, w)
       /\ ret' = [ret EXCEPT !.calls = @ + 1, !.w = w,
                             !.first = IF ret.calls = 0 THEN cmd' ELSE @]
  /\ UNCHANGED <<tree, platform, mt5_installed, config_file, mode, builder, pc,
                 config_loaded, success, is_building, scans, user, ui, events>>

CommandSpec == CmdInit /\ [][CmdCall]_vars


----------------------------------------------------------------------------
(* The GUI with its two threads.  The display thread handles one event at  *)
(* a time, the start-up scan and then the buttons the user presses, and    *)
(* after build_executable has started the worker thread the statements of  *)
(* build() run between them.  The buttons that only open a dialog or a     *)
(* folder are left out, and so is Save Configuration.                      *)

GuiTree == << f_gui, f_data, f_logo, f_pkg_main >>

GuiInit ==
  /\ tree = GuiTree
  /\ platform = "Linux" /\ mt5_installed = FALSE
  /\ \E prior \in {"never", "same"} :
       /\ config_file = PriorRoot(tree, platform, mt5_installed, prior).config_file
       /\ gen = PriorRoot(tree, platform, mt5_installed, prior).gen
  /\ mode = "off"
  /\ builder = NewBuilder(None)
  /\ pc = "idle"
  /\ config_loaded = FALSE
  /\ cmd = <<>>
  /\ wrote = {}
  /\ success = FALSE
  /\ is_building = FALSE
  /\ scans = 0
  /\ ret = NoRet
  /\ user = NoUser
  /\ ui = NoUI
  /\ events = 0

(* ui_log runs on the worker thread and calls Tk there (lines 600-627),   *)
(* which Tk does not support from a thread other than the one of its      *)
(* main loop: the call may return, as in the steps of build() above, or   *)
(* raise, and then build() is left at that statement and run_build's      *)
(* except clause is entered (line 639).                                   *)
BuildRaise ==
  /\ mode = "gui" /\ is_building /\ pc \notin {"idle", "done"}
  /\ pc' = "done"
  /\ ret' = [fn |-> "build", raised |-> TRUE]
  /\ ui' = [ui EXCEPT !.by_worker = @ \cup {"log_output"}]
  /\ UNCHANGED <<tree, platform, mt5_installed, gen, config_file, mode, builder,
                 config_loaded, cmd, wrote, success, is_building, scans, user, events>>

Event == events < MaxEvents /\ events' = events + 1

GuiNext ==
  \/ StartGUI
  \/ Event /\ UIScan
  \/ Event /\ UIDetectMain
  \/ Event /\ UIBuild
  \/ Event /\ UIMark
  \/ Event /\ UIClearSelection
  \/ Event /\ UIResetExclusions
  \/ Event /\ UIGenerateCommand
  \/ Event /\ UIAddDirectory
  \/ Event /\ UIRemoveDirectory
  \/ Event /\ UILoadConfig
  \/ Event /\ UIReset
  \/ Build
  \/ BuildRaise
  \/ WorkerDone

GuiSpec == GuiInit /\ [][GuiNext]_vars
----------------------------------------------------------------------------
(* Properties of the configuration file, the command and the run.          *)

(* C11: detect_dependencies is idempotent: a second call in a row, over    *)
(* the same source files and flags, leaves hidden_imports as the first     *)
(* call left it.                                                           *)
C11_SecondCallAddsNothing ==
  (ret.fn = "detect_dependencies" /\ ret.calls >= 1) => builder.hidden_imports = ret.once

C11_Witness ==
  /\ ret.fn = "detect_dependencies" /\ ret.calls = 2
  /\ mt5_hidden_imports \subseteq builder.hidden_imports
  /\ builder.mt5_path # None
  /\ <<"c","u","s","t","o","m",".","p","l","u","g","i","n">> \in builder.hidden_imports

(* C12: a configuration written by save_config_to_file and read back by    *)
(* load_config_from_file has every written field equal to what it was when *)
(* it was saved: main file, flags, hidden imports, the four file lists in  *)
(* order, the output directories, the excluded directories and the         *)
(* include-directory entries.                                              *)
C12_RoundTripExact ==
  (ret.fn = "load_config_from_file" /\ ret.intact) =>
    \A k \in Persisted \cup FileLists : builder[k] = ret.saved[k]

(* C13: include_directories never holds two entries with the same source   *)
(* directory and destination, whatever include_directory calls and         *)
(* configuration loads came before; and include_directory returns False    *)
(* and leaves the list as it was when an entry with its pair is there,     *)
(* also when that entry was read from a configuration file.                *)
C13_NoDuplicatePairs ==
  LET dirs == builder.include_directories
      SamePair(a, b) == a.directory = b.directory /\ a.destination = b.destination
  IN /\ \A i, j \in 1..Len(dirs) : SamePair(dirs[i], dirs[j]) => i = j
     /\ (ret.fn = "include_directory" /\ Len(dirs) > Len(ret.before.include_directories)) =>
          \A i \in 1..Len(ret.before.include_directories) :
             ~SamePair(ret.before.include_directories[i], dirs[Len(dirs)])

(* C14: load_config and load_config_from_file leave every field the file   *)
(* read does not hold, hidden_imports among them, at the value it had in   *)
(* memory before the call.                                                 *)
C14_MissingFieldKept ==
  (ret.fn \in {"load_config", "load_config_from_file"} /\ config_file # NoFile) =>
    \A k \in (IF ret.fn = "load_config" THEN Persisted ELSE Persisted \cup FileLists) :
       k \notin DOMAIN config_file => builder[k] = ret.before[k]

(* C15: generate_command is deterministic: calls on the same configuration *)
(* and the same file system return the same argument sequence, the order   *)
(* of the --hidden-import arguments included.                              *)
C15_SameCommand ==
  (ret.fn = "generate_command" /\ ret.calls >= 1) => cmd = ret.first

(* C16: the command starts with the interpreter prefix and --onefile or    *)
(* --onedir, ends with the entry point, and holds its groups in this       *)
(* order: the console/windowed group, the icon, the data, binary and       *)
(* resource files, the included directories, the excluded modules, the     *)
(* hidden imports, the optional flags, the work and dist paths; what       *)
(* else it holds comes after those.                                        *)
C16_Rank(i) ==
  LET t == cmd[i]
      v == IF i < Len(cmd) THEN cmd[i + 1] ELSE <<>>
      From(files) == \E j \in 1..Len(files) : StartsWith(v, files[j] \o Separator(platform))
  IN IF t \in { <<"-","-","o","n","e","f","i","l","e">>, <<"-","-","o","n","e","d","i","r">> } THEN 1
     ELSE IF t \in { <<"-","-","c","o","n","s","o","l","e">>, <<"-","-","w","i","n","d","o","w","e","d">> } THEN 2
     ELSE IF t = <<"-","-","r","u","n","t","i","m","e","-","h","o","o","k">> /\ v = stdin_hook_path THEN 2
     ELSE IF t = <<"-","-","i","c","o","n">> THEN 3
     ELSE IF t = <<"-","-","a","d","d","-","d","a","t","a">> /\ ~IsAbs(v) /\ From(builder.data_files) THEN 4
     ELSE IF t = <<"-","-","a","d","d","-","b","i","n","a","r","y">> THEN 5
     ELSE IF t = <<"-","-","a","d","d","-","d","a","t","a">> /\ ~IsAbs(v) /\ From(builder.resource_files) THEN 6
     ELSE IF t = <<"-","-","a","d","d","-","d","a","t","a">> /\ IsAbs(v) THEN 7
     ELSE IF t = <<"-","-","e","x","c","l","u","d","e","-","m","o","d","u","l","e">> THEN 8
     ELSE IF t = <<"-","-","h","i","d","d","e","n","-","i","m","p","o","r","t">> THEN 9
     ELSE IF t \in { <<"-","-","c","l","e","a","n">>, <<"-","-","q","u","i","e","t">>, <<"-","-","o","p","t","i","m","i","z","e">>, <<"-","-","n","a","m","e">> } THEN 10
     ELSE IF t = <<"-","-","w","o","r","k","p","a","t","h">> /\ v = builder.build_dir THEN 11
     ELSE IF t = <<"-","-","d","i","s","t","p","a","t","h">> THEN 12
     ELSE 13

C16_GroupsInOrder ==
  (ret.fn = "generate_command" /\ ret.calls >= 1) =>
    LET flags == { i \in 1..Len(cmd) : StartsWith(cmd[i], <<"-","-">>) }
    IN /\ SubSeq(cmd, 1, 3) = << <<"p","y","t","h","o","n">>, <<"-","m">>, <<"P","y","I","n","s","t","a","l","l","e","r">> >>
       /\ C16_Rank(4) = 1
       /\ C16_Rank(5) = 2
       /\ cmd[Len(cmd)] = builder.main_file
       /\ \A i, j \in flags : i < j => C16_Rank(i) <= C16_Rank(j)

C16_Witness ==
  /\ ret.fn = "generate_command" /\ ret.calls >= 1
  /\ platform = "Windows" /\ ~builder.console_mode
  /\ \A r \in 1..13 : \E i \in 1..Len(cmd) : StartsWith(cmd[i], <<"-","-">>) /\ C16_Rank(i) = r

(* C17: the command holds --console or --windowed, the one console_mode    *)
(* asks for, once, and not the other, on every platform and after the      *)
(* Windows step; a windowed command on Windows holds --uac-admin too.      *)
C17_OneModeFlag ==
  (ret.fn = "generate_command" /\ ret.calls >= 1) =>
    LET Count(t) == Cardinality({ i \in 1..Len(cmd) : cmd[i] = t })
    IN /\ Count(<<"-","-","c","o","n","s","o","l","e">>) = (IF builder.console_mode THEN 1 ELSE 0)
       /\ Count(<<"-","-","w","i","n","d","o","w","e","d">>) = (IF builder.console_mode THEN 0 ELSE 1)
       /\ (platform = "Windows" /\ ~builder.console_mode) => Count(<<"-","-","u","a","c","-","a","d","m","i","n">>) = 1

C17_Witness ==
  /\ ret.fn = "generate_command" /\ ret.calls >= 1
  /\ platform = "Windows" /\ ~builder.console_mode
  /\ InSeq(<<"-","-","u","a","c","-","a","d","m","i","n">>, cmd) /\ InSeq(<<"-","-","w","i","n","d","o","w","e","d">>, cmd)
  /\ builder.include_directories # <<>>

(* C18: when an auxiliary file (stdin_hook.py, mt5_hook.py, app.manifest)  *)
(* cannot be written, the command is still complete and ends with the      *)
(* entry point, the argument naming that file is not in it, and everything *)
(* else is as in the command of the call in which every write succeeds.    *)
C18_DropArg(c, path) ==
  IF InSeq(path, c)
  THEN LET i == CHOOSE k \in 1..Len(c) : c[k] = path
       IN SubSeq(c, 1, i - 2) \o SubSeq(c, i + 1, Len(c))
  ELSE c

C18_FailedWriteOmitsArg ==
  (ret.fn = "generate_command" /\ ret.calls >= 1) =>
    LET w == ret.w
        full == generate_command(builder, builder.main_file, Fs, platform,
                                 [AllWritten EXCEPT !.order = w.order])
        d1 == IF w.stdin_hook THEN full ELSE C18_DropArg(full, stdin_hook_path)
        d2 == IF w.mt5_hook THEN d1 ELSE C18_DropArg(d1, mt5_hook_path)
        d3 == IF w.manifest THEN d2 ELSE C18_DropArg(d2, manifest_path)
    IN /\ cmd[Len(cmd)] = builder.main_file
       /\ ~w.stdin_hook => ~InSeq(stdin_hook_path, cmd)
       /\ ~w.mt5_hook => ~InSeq(mt5_hook_path, cmd)
       /\ ~w.manifest => ~InSeq(manifest_path, cmd) /\ ~InSeq(<<"-","-","m","a","n","i","f","e","s","t">>, cmd)
       /\ \A i \in 1..Len(cmd) : cmd[i] = <<"-","-","r","u","n","t","i","m","e","-","h","o","o","k">> =>
            i < Len(cmd) /\ cmd[i + 1] \in { stdin_hook_path, mt5_hook_path }
       /\ cmd = d3

C18_Witness ==
  /\ ret.fn = "generate_command" /\ ret.calls >= 1
  /\ platform = "Windows" /\ ~builder.console_mode
  /\ builder.mt5_detection /\ builder.mt5_path # None
  /\ ~ret.w.stdin_hook /\ ~ret.w.mt5_hook /\ ~ret.w.manifest
  /\ InSeq(<<"-","-","w","i","n","d","o","w","e","d">>, cmd) /\ InSeq(<<"-","-","u","a","c","-","a","d","m","i","n">>, cmd)
  /\ Len(cmd) = Len(generate_command(builder, builder.main_file, Fs, platform, AllWritten)) - 6

(* C19: run_command returns True exactly when the packager process ran and *)
(* exited with code 0, and build() returns what run_command returned, also *)
(* when verify_build_artifacts does not find the executable.               *)
C19_SuccessIffExitZero ==
  ret.fn = "run_command" =>
    /\ ret.value <=> (ret.started /\ ret.exit = 0)
    /\ pc \in {"done", "idle"} => success = ret.value

C19_Witness ==
  /\ ret.fn = "run_command" /\ ret.started /\ ret.exit = 0
  /\ ret.verified = "missing"
  /\ pc = "done" /\ success

(* C20: when the packager exits with a code other than 0 and its output    *)
(* held "Permission denied", run_command returns False, the remediation    *)
(* hints are logged and verify_build_artifacts is not run.                 *)
C20_HintsOnPermissionDenied ==
  (/\ ret.fn = "run_command" /\ ret.started /\ ret.exit # 0
   /\ \E i \in 1..Len(ret.output) : Contains(ret.output[i], <<"P","e","r","m","i","s","s","i","o","n"," ","d","e","n","i","e","d">>)) =>
    ~ret.value /\ ret.hints /\ ret.verified = "not run"

(* C21: when an executable of an earlier build is in the way and removing  *)
(* it fails, for whatever reason, run_command logs a warning and starts    *)
(* the packager all the same.                                              *)
C21_RemovalFailureProceeds ==
  (ret.fn = "run_command" /\ ret.stale \in {"permission", "other"} /\ ret.popen) =>
    ret.warned /\ ret.started

(* C25: before the run, run_command looks for an old executable at         *)
(* dist_dir/<name>.exe on every platform and in both modes, and            *)
(* verify_build_artifacts looks for the new one at the path the platform   *)
(* and the mode give; in directory mode, and on a platform other than      *)
(* Windows, the two paths differ.                                          *)
C25_CleanedPathNotVerifiedPath ==
  ret.fn = "run_command" =>
    LET name == IF builder.app_name # None THEN builder.app_name
                ELSE Stem(Basename(builder.main_file))
        dist == builder.dist_dir \o <<"/">>
    IN /\ ret.exe_path = dist \o name \o <<".","e","x","e">>
       /\ ret.verified # "not run" =>
            /\ ret.verify_path =
                 dist \o (IF builder.one_file THEN <<>> ELSE name \o <<"/">>)
                      \o name \o (IF platform = "Windows" THEN <<".","e","x","e">> ELSE <<>>)
            /\ (platform # "Windows" \/ ~builder.one_file) => ret.verify_path # ret.exe_path

C25_Witness ==
  /\ ret.fn = "run_command" /\ ret.verified = "found"
  /\ platform = "Linux" /\ builder.one_file
  /\ ret.stale = "removed"
  /\ ret.verify_path # ret.exe_path

C22_Rank(p) ==
  CASE p = "check" -> 1 [] p = "load" -> 2 [] p = "scan" -> 3 [] p = "main" -> 4
    [] p = "deps" -> 5 [] p = "icon" -> 6 [] p = "modes" -> 7 [] p = "save" -> 8
    [] p = "generate" -> 9 [] p = "run" -> 10 [] p = "done" -> 11 [] OTHER -> 0

(* C22: within one build() the steps come in the order scan, detection of  *)
(* the entry point and of the dependencies, saving the configuration,      *)
(* assembling the command, running the packager, verifying the result:     *)
(* every step of a build moves forward, the project is scanned, the        *)
(* configuration saved and the command assembled only at their own step,   *)
(* the packager is run by one step only, which ends the build (so it is    *)
(* never run again), a build that stops because PyInstaller is missing or  *)
(* no entry point is found has run nothing, and the result is verified     *)
(* only when the run reported success.                                     *)
C22_StepsInOrder ==
  [][ /\ (C22_Rank(pc) > 0 /\ C22_Rank(pc') > 0) => C22_Rank(pc') > C22_Rank(pc)
      /\ (C22_Rank(pc) > 0 /\ C22_Rank(pc') > 0 /\ C22_Rank(pc') < 11) =>
           C22_Rank(pc') = C22_Rank(pc) + 1
      /\ (C22_Rank(pc) > 0 /\ pc' = "done") => pc \in {"check", "main", "run"}
      /\ (C22_Rank(pc) > 0 /\ scans' # scans) => pc = "scan"
      /\ (C22_Rank(pc) > 0 /\ builder'.hidden_imports # builder.hidden_imports) =>
           pc \in {"load", "deps"}
      /\ config_file' # config_file => pc = "save"
      /\ cmd' # cmd => pc = "generate"
      /\ (ret'.fn = "run_command" /\ ret' # ret) =>
           /\ pc = "run" /\ pc' = "done" /\ ret.fn # "run_command"
           /\ cmd' = cmd /\ config_file' = config_file /\ config_file # NoFile
           /\ ret'.verified # "not run" => (ret'.value /\ ret'.started)
      /\ (pc \in {"check", "main"} /\ pc' = "done") =>
           (ret'.fn # "run_command" /\ cmd' = <<>> /\ ~success') ]_vars

C22_Witness ==
  /\ pc = "done" /\ ret.fn = "run_command" /\ ret.verified = "missing"
  /\ scans >= 1 /\ config_file # NoFile /\ cmd # <<>> /\ success

(* C27: the files a build writes into the project root are project files   *)
(* to the next scan of that root: pyinstaller_config.json is recorded as   *)
(* a data file and gets an --add-data argument in the command assembled    *)
(* next, stdin_hook.py and mt5_hook.py are recorded as source files, and   *)
(* the imports of stdin_hook.py add the hidden import of tkinter.          *)
C27_OwnFilesScanned ==
  [][ /\ scans' # scans =>
           /\ config_file # NoFile =>
                InSeq(<<"p","y","i","n","s","t","a","l","l","e","r","_","c","o","n","f","i","g",".","j","s","o","n">>, builder'.data_files)
           /\ "stdin_hook" \in gen => InSeq(<<"s","t","d","i","n","_","h","o","o","k",".","p","y">>, builder'.python_files)
           /\ "mt5_hook" \in gen => InSeq(<<"m","t","5","_","h","o","o","k",".","p","y">>, builder'.python_files)
      /\ (pc = "deps" /\ pc' = "icon" /\ InSeq(<<"s","t","d","i","n","_","h","o","o","k",".","p","y">>, builder.python_files)) =>
           <<"t","k","i","n","t","e","r",".","c","o","m","m","o","n","d","i","a","l","o","g">> \in builder'.hidden_imports
      /\ (cmd' # cmd /\ InSeq(<<"p","y","i","n","s","t","a","l","l","e","r","_","c","o","n","f","i","g",".","j","s","o","n">>, builder.data_files)) =>
           \E i \in 1..(Len(cmd') - 1) :
              /\ cmd'[i] = <<"-","-","a","d","d","-","d","a","t","a">>
              /\ cmd'[i + 1] = <<"p","y","i","n","s","t","a","l","l","e","r","_","c","o","n","f","i","g",".","j","s","o","n">> \o Separator(platform) \o <<".">>
    ]_vars

(* the second of two builds with no option given, of a project that was    *)
(* not changed in between, has assembled another command than the first    *)
C27_Witness ==
  /\ pc = "run" /\ mode = "cli" /\ user = NoUser
  /\ ret.fn = "save_config" /\ ret.before # NoFile
  /\ ret.before = EarlierBuild(tree, platform, mt5_installed).config_file
  /\ wrote = EarlierBuild(tree, platform, mt5_installed).gen
  /\ "stdin_hook" \in wrote
  /\ cmd # EarlierBuild(tree, platform, mt5_installed).cmd
  /\ InSeq(<<"p","y","i","n","s","t","a","l","l","e","r","_","c","o","n","f","i","g",".","j","s","o","n">> \o Separator(platform) \o <<".">>, cmd)
  /\ ~InSeq(<<"p","y","i","n","s","t","a","l","l","e","r","_","c","o","n","f","i","g",".","j","s","o","n">> \o Separator(platform) \o <<".">>,
            EarlierBuild(tree, platform, mt5_installed).cmd)
  /\ InSeq(<<"t","k","i","n","t","e","r",".","c","o","m","m","o","n","d","i","a","l","o","g">>, cmd)

(* C28: over consecutive builds of one project root the hidden imports     *)
(* only grow: the set a build saves holds every hidden import of the       *)
(* configuration file the build found, whatever the sources import now.    *)
C28_HiddenImportsOnlyGrow ==
  [][ /\ (pc = "load" /\ pc' = "scan" /\ config_file # NoFile) =>
           SeqToSet(config_file.hidden_imports) \subseteq builder'.hidden_imports
      /\ (C22_Rank(pc) > 1 /\ C22_Rank(pc') > 0) =>
           builder.hidden_imports \subseteq builder'.hidden_imports
      /\ (config_file' # config_file /\ config_file # NoFile) =>
           SeqToSet(config_file.hidden_imports) \subseteq SeqToSet(config_file'.hidden_imports)
    ]_vars

(* a build has saved the hidden import of a package that no source file    *)
(* of the project imports any more                                        *)
C28_Witness ==
  /\ pc = "generate" /\ ret.fn = "save_config" /\ ret.before # NoFile
  /\ InSeq(<<"s","q","l","a","l","c","h","e","m","y",".","e","x","t",".","b","a","k","e","d">>, ret.before.hidden_imports)
  /\ InSeq(<<"s","q","l","a","l","c","h","e","m","y",".","e","x","t",".","b","a","k","e","d">>, config_file.hidden_imports)
  /\ \A i \in 1..Len(Fs) : <<"s","q","l","a","l","c","h","e","m","y">> \notin Fs[i].modules

(* C23: while a build started from the GUI runs on the worker thread, the  *)
(* log widget, the progress variable, the executable-location entry and    *)
(* the message boxes are called by the display thread only: the worker     *)
(* thread calls no widget.                                                 *)
C23_WidgetsOnDisplayThread == ui.by_worker = {}

(* C24: while a build started from the GUI runs, no event handled by the   *)
(* display thread changes the builder the build works on, and none         *)
(* replaces the builder of the UI.                                         *)
C24_BuilderOwnedByBuild ==
  [][ (is_building /\ events' # events) =>
        (builder' = builder /\ ui'.replaced = ui.replaced) ]_vars

(* C26: a data or resource file that was marked Exclude when Build         *)
(* Executable was pressed has no --add-data argument in the command the    *)
(* build assembles.                                                        *)
C26_ExcludedNotAdded ==
  (mode = "gui" /\ pc = "run") =>
    \A f \in ui.build_excluded : \A i \in 1..(Len(cmd) - 1) :
       cmd[i] = <<"-","-","a","d","d","-","d","a","t","a">> => ~StartsWith(cmd[i + 1], f \o Separator(platform))

(* C29: in the GUI at most one build thread runs: a thread is started      *)
(* only when is_building is false and none runs, is_building is true       *)
(* exactly while a thread runs, and when the thread ends, after a build    *)
(* that succeeded, failed or raised, is_building is false and the log      *)
(* function of the builder is the original one again.                      *)
C29_OneWorker ==
  [][ /\ ui'.workers > ui.workers => (~is_building /\ ui.workers = 0 /\ ui'.log = "ui_log")
      /\ ui'.workers < ui.workers =>
           (~is_building' /\ ui'.workers = 0 /\ ui'.log = "log" /\ ~ui'.replaced)
      /\ is_building' <=> ui'.workers = 1
      /\ ui'.workers <= 1 ]_vars

(* a build thread has ended after build() raised *)
C29_Witness ==
  /\ mode = "gui" /\ ~is_building /\ ui.workers = 0 /\ pc = "idle"
  /\ ret.fn = "build" /\ ret.raised
  /\ "messagebox" \in ui.by_worker /\ ui.log = "log"

(* C30: whatever the Include, Exclude, Clear Selection and Reset           *)
(* Exclusions buttons have done, no file is both in selected_files and in  *)
(* excluded_files.                                                         *)
C30_SelectedExcludedDisjoint == ui.selected_files \cap ui.excluded_files = {}

C30_Witness ==
  /\ events = MaxEvents
  /\ ui.selected_files # {} /\ ui.excluded_files # {}
  /\ ui.selected_files \cup ui.excluded_files = ui.lists.python_files

=============================================================================
